---- MODULE Spec2Model ----
(***************************************************************************)
(* The pipeline execution engine of genai-agents-backend: the dependency   *)
(* scheduler of PipelineAgent (_execute_parallel_pipeline), its retry      *)
(* wrapper (_execute_step_with_retry) and the final status                 *)
(* (_build_final_result).                                                  *)
(*                                                                         *)
(* A DataBag (a Python dict) is a set of <<key, value>> pairs with unique  *)
(* keys; a value is the name of the step that wrote it.  A Python string   *)
(* built by formatting is the sequence of its pieces, concatenated by \o.  *)
(***************************************************************************)
EXTENDS Integers, Sequences, FiniteSets, TLC

\* Largest value of PipelineConfig.max_retries that is explored.
MaxRetries == 2

\* getattr(step, 'timeout', 30)
DefaultTimeout == 30

\* self.max_iterations = 3 of both validation agents
MaxIterations == 3

None == <<"None">>

----------------------------------------------------------------------------
\* Steps and pipelines

\* A BaseStep: its name, get_required_inputs(), get_output_keys(), the keys
\* its execute() writes on success, the ways an attempt of it can end besides
\* success, and its timeout attribute ({} when the attribute is absent).
\* reads: the keys its execute() subscripts (a KeyError when one is absent);
\* validates: the keys of which its validate_input() needs one ({}: the
\* inherited validate_input, always True); condition: the keys its
\* should_execute() needs ({}: no ConditionalStep, or should_execute forced);
\* failed_writes: the keys of the data of a failed result its execute() returns.
Step(name, required, outputs, writes, faults) ==
    [name |-> name, required_inputs |-> required, output_keys |-> outputs,
     writes |-> writes, faults |-> faults, timeout |-> {}, echo |-> TRUE,
     sub_steps |-> <<>>, reads |-> {}, validates |-> {}, condition |-> {},
     failed_writes |-> {}]

\* A step of pipeline/steps: its result data holds its own keys only.
PlainStep(name, required, outputs, writes, faults) ==
    [Step(name, required, outputs, writes, faults) EXCEPT !.echo = FALSE]

\* A ParallelStep: it overrides neither get_required_inputs nor get_output_keys
\* (both []), and its execute adds the key parallel_results.
ParallelStep(name, sub_steps, faults) ==
    [Step(name, {}, {}, {"parallel_results"}, faults) EXCEPT !.sub_steps = sub_steps]

\* StepExecutor.get_default_pipeline_config with the enabled steps
DefaultPipeline ==
    << Step("load_context", {"query"},
            {"context", "schemas_loaded", "templates_loaded", "examples_loaded"},
            {"context", "schemas_loaded", "templates_loaded", "examples_loaded"},
            {"failed"}),
       Step("generate_sql", {"query"},
            {"sql_query", "generation_result", "validation_errors", "validation_warnings"},
            {"sql_query", "generation_result", "validation_errors", "validation_warnings"},
            {"failed", "timeout"}),
       Step("validate_sql", {"sql_query"},
            {"validation_result", "is_valid"},
            {"validation_result", "is_valid"},
            {"failed"}),
       Step("execute_sql", {"sql_query"},
            {"execution_result", "query_data", "row_count"},
            {"execution_result", "query_data", "row_count"},
            {"failed", "skipped"}) >>

\* A step that needs nothing, then two steps that need each other's output.
CyclePipeline ==
    << Step("A", {}, {"a"}, {"a"}, {"failed"}),
       Step("B", {"c"}, {"b"}, {"b"}, {}),
       Step("C", {"b"}, {"c"}, {"c"}, {}) >>

\* Two independent steps, then two steps that need each other's output.
BatchCyclePipeline ==
    << Step("A", {}, {"a"}, {"a"}, {"timeout"}),
       Step("D", {}, {"d"}, {"d"}, {}),
       Step("B", {"c", "a"}, {"b"}, {"b"}, {}),
       Step("C", {"b"}, {"c"}, {"c"}, {}) >>

\* A chain: every ready set holds one step.
ChainPipeline ==
    << Step("A", {"query"}, {"a"}, {"a"}, {"failed", "timeout", "raised"}),
       Step("B", {"a"}, {"b"}, {"b"}, {"failed", "skipped"}),
       Step("C", {"b"}, {"c"}, {"c"}, {}) >>

\* Five steps with pairwise disjoint required inputs and produced outputs.
FivePipeline ==
    << Step("S1", {"i1"}, {"o1"}, {"o1"}, {"failed"}),
       Step("S2", {"i2"}, {"o2"}, {"o2"}, {}),
       Step("S3", {"i3"}, {"o3"}, {"o3"}, {"timeout"}),
       Step("S4", {"i4"}, {"o4"}, {"o4"}, {}),
       Step("S5", {"i5"}, {"o5"}, {"o5"}, {}) >>

\* Two independent steps that write the same key, and a step that needs it.
OverlapPipeline ==
    << Step("P", {"query"}, {"p", "shared"}, {"p", "shared"}, {"failed", "raised"}),
       Step("Q", {"query"}, {"q", "shared"}, {"q", "shared"}, {"timeout"}),
       Step("R", {"shared"}, {"r"}, {"r"}, {}) >>

\* PipelineFactory's visualization_processing ParallelStep with its two
\* sub-steps, after a step that produces the query result.
VizPipeline ==
    << Step("execute_sql", {"sql_query"}, {"query_result"}, {"query_result"}, {"failed"}),
       ParallelStep("visualization_processing",
           << PlainStep("visualization_detection", {"processed_question", "query_result"},
                        {"visualization_type", "detection_metadata"},
                        {"visualization_type", "detection_metadata"}, {"failed"}),
              PlainStep("chart_data_extraction",
                        {"visualization_type", "query_result", "llm_response"},
                        {"chart_data", "extraction_metadata"},
                        {"chart_data", "extraction_metadata"}, {"failed", "raised"}) >>,
           {"timeout"}) >>

Pipelines ==
    {DefaultPipeline, CyclePipeline, BatchCyclePipeline, ChainPipeline,
     FivePipeline, OverlapPipeline, VizPipeline}

\* process_query passes {'query': ..., 'query_type': ...}; the scheduler takes any dict
InitialBags == { {}, {<<"query", "caller">>, <<"query_type", "caller">>} }

----------------------------------------------------------------------------
\* DataBag (dict) operations

Keys(d) == {p[1] : p \in d}

\* dict.update
Update(d, e) == {p \in d : p[1] \notin Keys(e)} \cup e

Range(s) == {s[i] : i \in DOMAIN s}

----------------------------------------------------------------------------
VARIABLES
    steps,              \* the steps argument
    initial_data,       \* the initial_data argument
    max_retries,        \* self.config.max_retries
    pc,                 \* position of _execute_parallel_pipeline
    dependency_graph,   \* step name -> names it depends on
    executed_steps,     \* set of step names
    results,            \* list of StepResult
    current_data,       \* the DataBag
    ready_steps,        \* names of the steps of the dispatch in flight
    tasks,              \* step name -> its _execute_step_with_retry coroutine
    completed,          \* names of the dispatched steps in the order they finished
    dispatches,         \* history: the ready_steps of every dispatch so far
    cycle_logged,       \* "Circular dependency detected in pipeline" was logged
    status,             \* 'status' of the final result, "none" before
    subs,               \* sub-step name -> its run inside ParallelStep.execute
    sub_completed,      \* names of the sub-steps in the order their run ended
    step_results        \* step_results of the last ParallelStep.execute that returned

VARIABLES
    loop,               \* the validation loop that runs: "sql" or "chart" ("none": neither)
    chart_type,         \* the chart_type argument ("" in the SQL loop)
    artifact,           \* the sql_query / chart_data argument
    max_iterations,     \* self.max_iterations
    vpc,                \* position of validate_sql_iteratively / validate_graph_data_iteratively
    current_artifact,   \* current_query / current_data
    iteration,          \* the variable of the for loop
    check_index,        \* position of _validate_single_iteration: the next check
    validation_results, \* list of ValidationResult
    history,            \* history: every check run and every repair requested so far
    report              \* the returned report, <<>> before

VARIABLES
    runner,             \* who runs the steps one after the other: "service"
                        \* (PipelineService.execute) or "agent"
                        \* (_execute_sequential_pipeline); "none": neither
    index,              \* position of the for loop over the steps
    runs,               \* history: every execute() entered, with the keys it received
    pipeline_error      \* 'error' of the PipelineResult

validation == <<loop, chart_type, artifact, max_iterations, vpc, current_artifact,
                iteration, check_index, validation_results, history, report>>

static == <<steps, initial_data, max_retries>>
sched == <<pc, dependency_graph, executed_steps, results, current_data, ready_steps,
           dispatches, cycle_logged, status>>
inflight == <<tasks, completed, subs, sub_completed, step_results>>

sequential == <<runner, index, runs, pipeline_error>>

VARIABLES
    cpc,                \* position of validate_complete_pipeline: "idle" (not
                        \* called), "sql", "execute", "detect", "chart", "done"
    request,            \* its arguments original_question, llm_answer and
                        \* expected_viz_type, and the query as generated
    sql_report,         \* Optional: the report of the SQL validation loop
    execution,          \* Optional: (executed_data, execution_error)
    viz,                \* Optional: (viz_type, initial_chart_data)
    graph_report,       \* Optional: the report of the chart validation loop
    total_iterations,
    coordinator_report, \* Optional: the ValidationCoordinatorReport returned
    phases              \* history: the phases entered, in order

coordinator == <<cpc, request, sql_report, execution, viz, graph_report,
                 total_iterations, coordinator_report, phases>>

vars == <<static, sched, inflight, validation, sequential, coordinator>>

Names(ss) == {ss[i].name : i \in DOMAIN ss}

StepNamed(ss, n) == ss[CHOOSE i \in DOMAIN ss : ss[i].name = n]

SubNames(ss) == UNION {Names(ss[i].sub_steps) : i \in DOMAIN ss}

\* The ParallelStep that holds sub-step n
ParentOf(ss, n) == ss[CHOOSE i \in DOMAIN ss : n \in Names(ss[i].sub_steps)]

\* StepResult(step_name, status, data, error)
StepResult(step_name, st, data, error) ==
    [step_name |-> step_name, status |-> st, data |-> data, error |-> error]

NoResult == StepResult("", "none", {}, None)

\* An exception object where a StepResult is expected (what asyncio.gather
\* returns for a task that raised, with return_exceptions=True)
Raised(step_name, error) == StepResult(step_name, "exception", {}, error)

\* A coroutine of _execute_step_with_retry: the loop variable attempt, last_error,
\* the delay being slept, the delay slept before the attempt in flight, the way
\* each attempt so far ended, and the value returned.
IdleTask ==
    [phase |-> "idle", attempt |-> 0, last_error |-> None, delay |-> 0,
     waited |-> 0, log |-> <<>>, result |-> NoResult]

\* A sub-step's run coroutine inside ParallelStep.execute
IdleSub == [phase |-> "idle", result |-> NoResult]

----------------------------------------------------------------------------
\* Mutant: the test is made the wrong way round (B's required inputs against
\* A's output keys).
BuildDependencyGraph_Reversed(ss) ==
    [n \in Names(ss) |->
        LET step == StepNamed(ss, n) IN
        {ss[j].name : j \in {k \in DOMAIN ss :
            /\ ss[k].name # step.name
            /\ \E inp \in ss[k].required_inputs : inp \in step.output_keys}}]

\* _build_dependency_graph: A depends on B iff B is another step and any of
\* A's required inputs is among B's output keys.
BuildDependencyGraph(ss) ==
    [n \in Names(ss) |->
        LET step == StepNamed(ss, n) IN
        {ss[j].name : j \in {k \in DOMAIN ss :
            /\ ss[k].name # step.name
            /\ \E inp \in step.required_inputs : inp \in ss[k].output_keys}}]

\* the ready_steps list comprehension, in the order of steps
ReadySteps(ss, executed, graph) ==
    SelectSeq(ss, LAMBDA step :
        /\ step.name \notin executed
        /\ \A dep \in graph[step.name] : dep \in executed)

ReadyNames ==
    LET ready == ReadySteps(steps, executed_steps, dependency_graph) IN
    [i \in DOMAIN ready |-> ready[i].name]

\* while len(executed_steps) < len(steps)
LoopCondition == Cardinality(executed_steps) < Len(steps)

\* Mutant: continue instead of break.
AfterCycleDetected_Continue == "loop"

\* where the scheduler goes when ready_steps is empty: break
AfterCycleDetected == "return"

----------------------------------------------------------------------------
\* Steps

\* getattr(step, 'timeout', 30)
Timeout(step) ==
    IF step.timeout = {} THEN DefaultTimeout ELSE CHOOSE t \in step.timeout : TRUE

\* The error of a step's own failed result, and str(e) of what its run raises
FailedError(step) == <<"error of ", step.name>>
RaisedError(step) == <<"exception in ", step.name>>

\* str(KeyError(key)) of the first key that execute() subscripts and misses
KeyError(step, input_data) ==
    <<"'", CHOOSE k \in step.reads \ Keys(input_data) : TRUE, "'">>

\* f"Step timeout after {getattr(step, 'timeout', 30)}s"
TimeoutError(step) == <<"Step timeout after ", ToString(Timeout(step)), "s">>

\* What step.run(input_data) returns when it ends the given way.  The steps of
\* agents/pipeline return {**input_data, <their keys>} on success and
\* input_data otherwise; the steps of pipeline/steps return their own keys,
\* and BaseStep.run returns {} with the failure it caught.
StepRun(step, input_data, kind) ==
    LET own == {<<k, step.name>> : k \in step.writes} IN
    CASE step.reads \ Keys(input_data) # {} ->
            StepResult(step.name, "failed", {}, KeyError(step, input_data))
      [] kind = "success" ->
            StepResult(step.name, "success",
                       IF step.echo THEN Update(input_data, own) ELSE own, None)
      [] kind = "skipped" ->
            StepResult(step.name, "skipped", input_data, None)
      [] OTHER ->
            StepResult(step.name, "failed",
                       IF step.echo THEN input_data
                       ELSE {<<k, step.name>> : k \in step.failed_writes},
                       FailedError(step))

\* Mutant: current_data = result.data instead of current_data.update(result.data).
MergeResult_Replace(data, r) ==
    IF r.status = "success" THEN r.data ELSE data

\* if result.status == StepStatus.SUCCESS: current_data.update(result.data)
MergeResult(data, r) ==
    IF r.status = "success" THEN Update(data, r.data) ELSE data

RECURSIVE MergeAll(_, _)
MergeAll(data, rs) ==
    IF rs = <<>> THEN data
    ELSE MergeAll(MergeResult(data, Head(rs)), Tail(rs))

\* ParallelStep.execute after its gather: an exception becomes a failed
\* StepResult with no data, the data of the successful sub-steps is merged
\* in the order of sub_steps.
ParallelStepResults(step, gathered) ==
    [i \in DOMAIN gathered |->
        IF gathered[i].status = "exception"
        THEN StepResult(step.sub_steps[i].name, "failed", {}, gathered[i].error)
        ELSE gathered[i]]

ParallelStepExecute(step, input_data, gathered) ==
    LET rs == ParallelStepResults(step, gathered)
        combined_data == MergeAll(input_data, rs)
        has_errors == \E i \in DOMAIN rs : rs[i].status = "failed"
    IN  StepResult(step.name,
                   IF has_errors THEN "failed" ELSE "success",
                   Update(combined_data, {<<"parallel_results", step.name>>}),
                   IF has_errors THEN <<"One or more parallel steps failed">> ELSE None)

----------------------------------------------------------------------------
\* The retry wrapper

\* Mutant: range(self.config.max_retries).
Attempts_OffByOne == max_retries

\* range(self.config.max_retries + 1)
Attempts == max_retries + 1

\* StepResult(..., error=f"Failed after {max_retries + 1} attempts: {last_error}")
AllRetriesFailed(step, input_data, last_error) ==
    StepResult(step.name, "failed", input_data,
               <<"Failed after ", ToString(max_retries + 1), " attempts: ">> \o last_error)

\* Mutant: last_error = last_error or <the error of this attempt>.
NextLastError_KeepFirst(last_error, error) ==
    IF last_error = None THEN error ELSE last_error

\* last_error = <the error of this attempt>
NextLastError(last_error, error) == error

\* The coroutine at the top of the for loop with the loop variable at `attempt`
LoopTop(t, step, attempt, waited) ==
    IF attempt < Attempts
    THEN [t EXCEPT !.phase = "running", !.attempt = attempt, !.waited = waited,
                   !.delay = 0]
    ELSE [t EXCEPT !.phase = "done", !.delay = 0,
                   !.result = AllRetriesFailed(step, current_data, t.last_error)]

\* 2 ** attempt
Backoff(attempt) == 2 ^ attempt

\* step.run returned `r` to the attempt in flight
AfterReturn(t, step, kind, r) ==
    LET logged == [t EXCEPT !.log = Append(@, kind)] IN
    IF r.status # "failed"
    THEN [logged EXCEPT !.phase = "done", !.result = r]
    ELSE LET failed == [logged EXCEPT !.last_error = NextLastError(@, r.error)] IN
         IF t.attempt < max_retries
         THEN [failed EXCEPT !.phase = "sleeping", !.delay = Backoff(t.attempt)]
         ELSE LoopTop(failed, step, t.attempt + 1, 0)

\* except asyncio.TimeoutError / except Exception
Catches(kind) == kind \in {"timeout", "raised"}

\* wait_for timed out, or step.run raised, in the attempt in flight
AfterException(t, step, kind, error) ==
    LET logged == [t EXCEPT !.log = Append(@, kind)] IN
    IF Catches(kind)
    THEN LoopTop([logged EXCEPT !.last_error = NextLastError(@, error)],
                 step, t.attempt + 1, 0)
    ELSE [logged EXCEPT !.phase = "done", !.result = Raised(step.name, error)]

StartTask(step) == LoopTop(IdleTask, step, 0, 0)

\* The sub-step coroutines of ParallelStep `step` once its wrapper coroutine
\* has become t: a new attempt starts them all, a timeout cancels those in flight.
SubsAfter(step, t) ==
    [n \in DOMAIN subs |->
        IF n \notin Names(step.sub_steps) THEN subs[n]
        ELSE IF t.phase = "running" THEN [phase |-> "running", result |-> NoResult]
        ELSE IF subs[n].phase = "running" THEN [phase |-> "cancelled", result |-> NoResult]
        ELSE subs[n]]

\* The wrapper coroutine of step n moves to t
TaskMoves(n, t) ==
    /\ tasks' = [tasks EXCEPT ![n] = t]
    /\ step_results' = IF StepNamed(steps, n).sub_steps # <<>> /\ t.phase = "running"
                       THEN <<>> ELSE step_results
    /\ completed' = IF t.phase = "done" THEN Append(completed, n) ELSE completed
    /\ subs' = SubsAfter(StepNamed(steps, n), t)
    /\ sub_completed' = IF StepNamed(steps, n).sub_steps # <<>> /\ t.phase = "running"
                        THEN <<>> ELSE sub_completed

AttemptReturns(n) ==
    /\ pc = "await"
    /\ tasks[n].phase = "running"
    /\ LET step == StepNamed(steps, n) IN
       /\ step.sub_steps = <<>>
       /\ \E kind \in {"success"} \cup (step.faults \cap {"failed", "skipped"}) :
             TaskMoves(n, AfterReturn(tasks[n], step, kind,
                                      StepRun(step, current_data, kind)))
    /\ UNCHANGED <<validation, sequential, coordinator, static, sched>>

AttemptTimesOut(n) ==
    /\ pc = "await"
    /\ tasks[n].phase = "running"
    /\ LET step == StepNamed(steps, n) IN
       /\ "timeout" \in step.faults
       /\ TaskMoves(n, AfterException(tasks[n], step, "timeout", TimeoutError(step)))
    /\ UNCHANGED <<validation, sequential, coordinator, static, sched>>

AttemptRaises(n) ==
    /\ pc = "await"
    /\ tasks[n].phase = "running"
    /\ LET step == StepNamed(steps, n) IN
       /\ "raised" \in step.faults
       /\ TaskMoves(n, AfterException(tasks[n], step, "raised", RaisedError(step)))
    /\ UNCHANGED <<validation, sequential, coordinator, static, sched>>

\* await asyncio.sleep(2 ** attempt) is over
SleepEnds(n) ==
    /\ pc = "await"
    /\ tasks[n].phase = "sleeping"
    /\ TaskMoves(n, LoopTop(tasks[n], StepNamed(steps, n), tasks[n].attempt + 1,
                            tasks[n].delay))
    /\ UNCHANGED <<validation, sequential, coordinator, static, sched>>

\* The run of sub-step n of a ParallelStep in flight returns or raises
SubRunEnds(n) ==
    /\ pc = "await"
    /\ subs[n].phase = "running"
    /\ LET step == StepNamed(ParentOf(steps, n).sub_steps, n) IN
       \E kind \in {"success"} \cup step.faults :
          subs' = [subs EXCEPT ![n] =
                      [phase |-> "done",
                       result |-> IF kind = "raised"
                                  THEN Raised(step.name, RaisedError(step))
                                  ELSE StepRun(step, current_data, kind)]]
    /\ sub_completed' = Append(sub_completed, n)
    /\ UNCHANGED <<validation, sequential, coordinator, static, sched, tasks, completed, step_results>>

\* Mutant: the results are taken in the order the tasks finished
\* (asyncio.as_completed).
GatherOrder_Completion(ready, finished) == finished

\* asyncio.gather returns the results in the order of the tasks it was given
GatherOrder(ready, finished) == ready

\* The gather of ParallelStep n returns, execute builds its result, and
\* BaseStep.run hands it to the wrapper's attempt in flight.
ParallelStepReturns(n) ==
    /\ pc = "await"
    /\ tasks[n].phase = "running"
    /\ LET step == StepNamed(steps, n)
           order == GatherOrder([i \in DOMAIN step.sub_steps |-> step.sub_steps[i].name],
                                sub_completed)
           gathered == [i \in DOMAIN order |-> subs[order[i]].result]
           r == ParallelStepExecute(step, current_data, gathered)
       IN /\ step.sub_steps # <<>>
          /\ \A m \in Names(step.sub_steps) : subs[m].phase = "done"
          /\ LET t == AfterReturn(tasks[n], step, r.status, r) IN
             /\ tasks' = [tasks EXCEPT ![n] = t]
             /\ completed' = IF t.phase = "done" THEN Append(completed, n)
                             ELSE completed
          /\ step_results' = ParallelStepResults(step, gathered)
          /\ UNCHANGED <<subs, sub_completed>>
    /\ UNCHANGED <<validation, sequential, coordinator, static, sched>>

----------------------------------------------------------------------------
\* The scheduler

PipelineInit ==
    /\ steps \in Pipelines
    /\ initial_data \in InitialBags
    /\ max_retries \in 0..MaxRetries
    /\ pc = "start"
    /\ dependency_graph = [n \in Names(steps) |-> {}]
    /\ executed_steps = {}
    /\ results = <<>>
    /\ current_data = {}
    /\ ready_steps = <<>>
    /\ tasks = [n \in Names(steps) |-> IdleTask]
    /\ completed = <<>>
    /\ dispatches = <<>>
    /\ cycle_logged = FALSE
    /\ status = "none"
    /\ subs = [n \in SubNames(steps) |-> IdleSub]
    /\ sub_completed = <<>>
    /\ step_results = <<>>

\* No validation agent is in use during a pipeline run.
NoValidation ==
    /\ loop = "none"
    /\ chart_type = ""
    /\ artifact = <<>>
    /\ max_iterations = MaxIterations
    /\ vpc = "idle"
    /\ current_artifact = <<>>
    /\ iteration = 0
    /\ check_index = 0
    /\ validation_results = <<>>
    /\ history = <<>>
    /\ report = <<>>

\* No sequential run is under way.
NoSequential ==
    /\ runner = "none"
    /\ index = 0
    /\ runs = <<>>
    /\ pipeline_error = None

\* validate_complete_pipeline is not called.
NoCoordinator ==
    /\ cpc = "idle"
    /\ request = <<>>
    /\ sql_report = <<>>
    /\ execution = <<>>
    /\ viz = <<>>
    /\ graph_report = <<>>
    /\ total_iterations = 0
    /\ coordinator_report = <<>>
    /\ phases = <<>>

Init == PipelineInit /\ NoValidation /\ NoSequential /\ NoCoordinator

\* dependency_graph = ...; executed_steps = set(); results = []; current_data = copy
Begin ==
    /\ pc = "start"
    /\ pc' = "loop"
    /\ dependency_graph' = BuildDependencyGraph(steps)
    /\ executed_steps' = {}
    /\ results' = <<>>
    /\ current_data' = initial_data
    /\ UNCHANGED <<validation, sequential, coordinator, static, ready_steps, dispatches, cycle_logged, status, inflight>>

\* the while condition is false
LoopExit ==
    /\ pc = "loop"
    /\ ~LoopCondition
    /\ pc' = "return"
    /\ UNCHANGED <<validation, sequential, coordinator, static, dependency_graph, executed_steps, results, current_data,
                   ready_steps, dispatches, cycle_logged, status, inflight>>

\* if not ready_steps: logger.error(...); break
CycleBreak ==
    /\ pc = "loop"
    /\ LoopCondition
    /\ Len(ReadyNames) = 0
    /\ cycle_logged' = TRUE
    /\ pc' = AfterCycleDetected
    /\ UNCHANGED <<validation, sequential, coordinator, static, dependency_graph, executed_steps, results, current_data,
                   ready_steps, dispatches, status, inflight>>

\* The coroutines of the ready steps are created: one awaited directly, or
\* several handed to asyncio.gather.
Dispatch(ready) ==
    /\ ready_steps' = ready
    /\ dispatches' = Append(dispatches, ready)
    /\ completed' = <<>>
    /\ tasks' = [n \in Names(steps) |->
                    IF n \in Range(ready) THEN StartTask(StepNamed(steps, n))
                    ELSE IdleTask]
    /\ subs' = [n \in DOMAIN subs |->
                    IF ParentOf(steps, n).name \in Range(ready)
                       /\ StartTask(ParentOf(steps, n)).phase = "running"
                    THEN [phase |-> "running", result |-> NoResult]
                    ELSE IdleSub]
    /\ sub_completed' = <<>>
    /\ step_results' = <<>>
    /\ pc' = "await"
    /\ UNCHANGED <<validation, sequential, coordinator, static, dependency_graph, executed_steps, results, current_data,
                   cycle_logged, status>>

DispatchSingle ==
    /\ pc = "loop"
    /\ LoopCondition
    /\ Len(ReadyNames) = 1
    /\ Dispatch(ReadyNames)

DispatchBatch ==
    /\ pc = "loop"
    /\ LoopCondition
    /\ Len(ReadyNames) > 1
    /\ Dispatch(ReadyNames)

\* The single-step branch, after the await.  An exception out of the wrapper
\* leaves _execute_parallel_pipeline for process_query's handler, which
\* returns status 'error'.
SingleDone ==
    /\ pc = "await"
    /\ Len(ready_steps) = 1
    /\ tasks[ready_steps[1]].phase = "done"
    /\ LET step_result == tasks[ready_steps[1]].result IN
       IF step_result.status = "exception"
       THEN /\ pc' = "done"
            /\ status' = "error"
            /\ UNCHANGED <<results, executed_steps, current_data>>
       ELSE /\ results' = Append(results, step_result)
            /\ executed_steps' = executed_steps \cup {ready_steps[1]}
            /\ current_data' = MergeResult(current_data, step_result)
            /\ pc' = "loop"
            /\ UNCHANGED status
    /\ UNCHANGED <<validation, sequential, coordinator, static, dependency_graph, ready_steps, dispatches, cycle_logged,
                   inflight>>

\* Mutant: the wait returns once any task is done (FIRST_COMPLETED).
GatherReturns_First(ready) == \E n \in Range(ready) : tasks[n].phase = "done"

\* asyncio.gather returns once every task is done
GatherReturns(ready) == \A n \in Range(ready) : tasks[n].phase = "done"

\* The for loop over parallel_results: an exception becomes a failed result
\* whose data is current_data; [results, data] after the loop.
RECURSIVE MergeGathered(_, _, _)
MergeGathered(rs, data, parallel_results) ==
    IF parallel_results = <<>> THEN [results |-> rs, data |-> data]
    ELSE LET r == Head(parallel_results)
             result == IF r.status = "exception"
                       THEN StepResult(r.step_name, "failed", data, r.error)
                       ELSE r
         IN  MergeGathered(Append(rs, result), MergeResult(data, result),
                           Tail(parallel_results))

GatherDone ==
    /\ pc = "await"
    /\ Len(ready_steps) # 1
    /\ GatherReturns(ready_steps)
    /\ LET order == GatherOrder(ready_steps, completed)
           parallel_results == [i \in DOMAIN order |-> tasks[order[i]].result]
           merged == MergeGathered(results, current_data, parallel_results)
       IN /\ results' = merged.results
          /\ executed_steps' = executed_steps \cup Range(order)
          /\ current_data' = merged.data
    /\ pc' = "loop"
    /\ UNCHANGED <<validation, sequential, coordinator, static, dependency_graph, ready_steps, dispatches, cycle_logged,
                   status, inflight>>

\* _build_final_result: the overall status
FinalStatus(pipeline_results) ==
    IF pipeline_results = <<>> THEN "error"
    ELSE IF \E i \in DOMAIN pipeline_results : pipeline_results[i].status = "failed"
         THEN "failed"
         ELSE "success"

BuildFinalResult ==
    /\ pc = "return"
    /\ status' = FinalStatus(results)
    /\ pc' = "done"
    /\ UNCHANGED <<validation, sequential, coordinator, static, dependency_graph, executed_steps, results, current_data,
                   ready_steps, dispatches, cycle_logged, inflight>>

Next ==
    \/ Begin
    \/ LoopExit
    \/ CycleBreak
    \/ DispatchSingle
    \/ DispatchBatch
    \/ \E n \in Names(steps) : AttemptReturns(n)
    \/ \E n \in Names(steps) : AttemptTimesOut(n)
    \/ \E n \in Names(steps) : AttemptRaises(n)
    \/ \E n \in Names(steps) : SleepEnds(n)
    \/ \E n \in SubNames(steps) : SubRunEnds(n)
    \/ \E n \in Names(steps) : ParallelStepReturns(n)
    \/ SingleDone
    \/ GatherDone
    \/ BuildFinalResult

Spec == Init /\ [][Next]_vars

\* The event loop runs every coroutine that can run; every attempt ends (it
\* returns, raises, or wait_for times it out) and every sleep ends.
FairSpec == Spec /\ WF_vars(Next)

----------------------------------------------------------------------------
\* The validation loops: SQLValidationAgent.validate_sql_iteratively and
\* GraphDataValidationAgent.validate_graph_data_iteratively.
\*
\* A text is the sequence of its words, which single blanks join; the word
\* " " is white space at an end of the text.  A chart payload (a dict) is a
\* function from its field names; the kinds bar and pie (labels, values) and
\* heatmap (matrix, rows, cols) are modelled, with integer values and string
\* labels.  A confidence score is in hundredths.  An Optional value is <<>>
\* for None and <<v>> otherwise.

\* ValidationResult / GraphValidationResult
ValidationResult(is_valid, error_message, suggested_fix, confidence_score, validation_type) ==
    [is_valid |-> is_valid, error_message |-> error_message,
     suggested_fix |-> suggested_fix, confidence_score |-> confidence_score,
     validation_type |-> validation_type]

\* a finding of a check that passed: only is_valid, the score and the type are given
Passed(confidence_score, validation_type) ==
    ValidationResult(TRUE, None, <<>>, confidence_score, validation_type)

\* a finding of a check that failed: the score keeps its default 0.0
Failed(error_message, suggested_fix, validation_type) ==
    ValidationResult(FALSE, error_message, suggested_fix, 0, validation_type)

\* bool(x) of a str or a dict
Truthy(x) == DOMAIN x # {}

Min(a, b) == IF a < b THEN a ELSE b

\* s[:n]
Take(s, n) == SubSeq(s, 1, Min(n, Len(s)))

RECURSIVE Sum(_, _)
\* sum(f[x] for x in S)
Sum(f, S) ==
    IF S = {} THEN 0
    ELSE LET x == CHOOSE y \in S : TRUE IN f[x] + Sum(f, S \ {x})

\* What a call of the oracle (self.llm.ainvoke) or of the warehouse (db.run)
\* gives: it raises, or it returns a text (the warehouse: rows).
NoCall == [called |-> "none", raised |-> FALSE, text |-> <<>>]
OracleError == [called |-> "oracle", raised |-> TRUE, text |-> <<>>]
OracleAnswer(text) == [called |-> "oracle", raised |-> FALSE, text |-> text]
WarehouseRows == [called |-> "warehouse", raised |-> FALSE, text |-> <<>>]
WarehouseError(text) == [called |-> "warehouse", raised |-> TRUE, text |-> text]

\* The answers of the oracle to the question of the semantic check.
SemanticAnswers ==
    {OracleError, OracleAnswer(<<"VALID">>),
     OracleAnswer(<<"INVALID:", " ", "wrong aggregation">>)}

\* The outcomes of the dry run.
WarehouseOutcomes ==
    {WarehouseRows, WarehouseError(<<"Not found: Table">>),
     WarehouseError(<<"Invalid date">>), WarehouseError(<<"Syntax error">>)}

\* The key words that the code looks for in the lower-cased text of a message
\* ('not found' in error_msg.lower(), "missing" in error_message.lower(), ...),
\* for each piece of text that a message is made of.
KeywordsOf(piece) ==
    CASE piece = "Not found: Table" -> {"not found"}
      [] piece = "Invalid date" -> {"invalid date"}
      [] piece = "Unsupported chart type: " -> {"type"}
      [] piece = "Missing required fields for " -> {"missing"}
      [] piece = "Too much missing data: " -> {"missing"}
      [] piece = "Values and labels length mismatch: " -> {"length mismatch"}
      [] piece = "Heatmap matrix must be a non-empty list" -> {"empty"}
      [] OTHER -> {}

Mentions(message, keyword) ==
    \E i \in DOMAIN message : keyword \in KeywordsOf(message[i])

RECURSIVE Strip(_)
\* str.strip
Strip(text) ==
    IF text = <<>> THEN text
    ELSE IF Head(text) = " " THEN Strip(Tail(text))
    ELSE IF text[Len(text)] = " " THEN Strip(SubSeq(text, 1, Len(text) - 1))
    ELSE text

\* str.replace(old, '') for a piece old of the text
Without(text, old) == SelectSeq(text, LAMBDA w : w # old)

RECURSIVE CharLen(_)
\* len of a text: its words and the blanks between them
CharLen(text) ==
    IF text = <<>> THEN 0
    ELSE IF Len(text) = 1 THEN Len(text[1])
    ELSE Len(Head(text)) + 1 + CharLen(Tail(text))

----------------------------------------------------------------------------
\* The checks of the SQL loop

\* f'{settings.gcp_project_id}.{settings.bq_dataset}'
Dataset == "p.d"

\* The deepest qualification of the table name that the fixes of one run can
\* build.
MaxDepth == MaxIterations + 1

RECURSIVE TableName(_)
\* cost_analysis, qualified k times with the data set
TableName(k) == IF k = 0 THEN "cost_analysis" ELSE (Dataset \o ".") \o TableName(k - 1)

RECURSIVE UpperTableName(_)
UpperTableName(k) == IF k = 0 THEN "COST_ANALYSIS" ELSE "P.D." \o UpperTableName(k - 1)

IsTable(w) == \E k \in 0..MaxDepth : w = TableName(k)

\* str.upper of a word
Upper(w) ==
    IF IsTable(w) THEN UpperTableName(CHOOSE k \in 0..MaxDepth : w = TableName(k))
    ELSE CASE w = "select" -> "SELECT"
           [] w = "from" -> "FROM"
           [] w = "where" -> "WHERE"
           [] w = "limit" -> "LIMIT"
           [] w = "cost" -> "COST"
           [] w = "date" -> "DATE"
           [] w = "curdate()" -> "CURDATE()"
           [] w = "Sorry," -> "SORRY,"
           [] w = "no" -> "NO"
           [] w = "idea" -> "IDEA"
           [] OTHER -> w

\* sql_query.upper()
UpperText(text) == [i \in DOMAIN text |-> Upper(text[i])]

\* s in w, for a word w
Contains(w, s) ==
    \/ w = s
    \/ s = "cost_analysis" /\ IsTable(w)
    \/ s = Dataset /\ \E k \in 1..MaxDepth : w = TableName(k)
    \/ s = "LIMIT" /\ w = "LIMIT_OFFSET"
    \/ s = "COUNT(" /\ w = "COUNT(cost)"

\* s in text, for a text s of one word
HasWord(text, s) == \E i \in DOMAIN text : Contains(text[i], s)

\* re.search of the word s between word boundaries
HasExactWord(text, s) == \E i \in DOMAIN text : text[i] = s

\* the words a and b, in a row, in text
HasPhrase(text, a, b) ==
    \E i \in DOMAIN text : i < Len(text) /\ text[i] = a /\ text[i + 1] = b

\* str.replace(old, new) for a word old that no other word of the text contains
ReplaceWord(text, old, new) ==
    [i \in DOMAIN text |-> IF text[i] = old THEN new ELSE text[i]]

\* sql_query.replace('cost_analysis', f'{dataset_format}.cost_analysis'): every
\* occurrence, the ones in qualified names too
Qualify(text) ==
    [i \in DOMAIN text |-> IF IsTable(text[i]) THEN (Dataset \o ".") \o text[i] ELSE text[i]]

\* .replace('FROM cost_analysis', f'FROM {dataset_format}.cost_analysis')
QualifyFrom(text) ==
    [i \in DOMAIN text |->
        IF i > 1 /\ text[i - 1] = "FROM" /\ text[i] = TableName(0)
        THEN TableName(1) ELSE text[i]]

\* the suggested fix of _validate_syntax
DefaultQuery == <<"SELECT", "*", "FROM", TableName(1), "LIMIT", "10">>

ValidateSyntax(sql_query) ==
    LET query_upper == UpperText(sql_query) IN
    IF sql_query = <<>>
    THEN Failed(<<"Empty or invalid SQL query">>, <<>>, "syntax")
    ELSE IF ~HasExactWord(query_upper, "SELECT")
    THEN Failed(<<"SQL query must contain SELECT statement">>, <<DefaultQuery>>, "syntax")
    ELSE IF ~HasExactWord(query_upper, "FROM")
    THEN Failed(<<"SQL query must contain FROM clause">>, <<>>, "syntax")
    ELSE IF HasWord(query_upper, "LIMIT_OFFSET")
    THEN Failed(<<"Invalid function '", "LIMIT_OFFSET", "' for BigQuery">>, <<>>, "syntax")
    ELSE IF HasWord(query_upper, "ROWNUM")
    THEN Failed(<<"Invalid function '", "ROWNUM", "' for BigQuery">>, <<>>, "syntax")
    ELSE Passed(90, "syntax")

ValidateBigquerySpecifics(sql_query) ==
    LET query_upper == UpperText(sql_query) IN
    IF HasPhrase(sql_query, "FROM", TableName(0)) /\ ~HasWord(sql_query, Dataset)
    THEN Failed(<<"Table name must be fully qualified with project and dataset">>,
                <<QualifyFrom(Qualify(sql_query))>>, "bigquery_specific")
    ELSE IF HasWord(query_upper, "CURDATE()") \/ HasWord(query_upper, "NOW()")
    THEN Failed(<<"Use BigQuery date functions: CURRENT_DATE(), CURRENT_DATETIME()">>,
                <<ReplaceWord(ReplaceWord(sql_query, "CURDATE()", "CURRENT_DATE()"),
                              "NOW()", "CURRENT_DATETIME()")>>,
                "bigquery_specific")
    ELSE Passed(85, "bigquery_specific")

\* A semantic check that takes the oracle's error for a failure.
ValidateSemantics_FailClosed(answer) ==
    IF answer.raised
    THEN Failed(<<"Semantic validation failed: ">>, <<>>, "semantic")
    ELSE IF answer.text # <<>> /\ Head(answer.text) = "VALID"
    THEN Passed(80, "semantic")
    ELSE Failed(<<"Semantic validation failed: ">> \o Strip(Without(answer.text, "INVALID:")),
                <<>>, "semantic")

\* SQLValidationAgent._validate_semantics, given what self.llm.ainvoke gives
ValidateSemantics(answer) ==
    IF answer.raised
    THEN Passed(50, "semantic")
    ELSE IF answer.text # <<>> /\ Head(answer.text) = "VALID"
    THEN Passed(80, "semantic")
    ELSE Failed(<<"Semantic validation failed: ">> \o Strip(Without(answer.text, "INVALID:")),
                <<>>, "semantic")

\* the query of the dry run: ' LIMIT 1' is added to a query without LIMIT
TestQuery(sql_query) ==
    IF HasWord(UpperText(sql_query), "LIMIT") THEN sql_query
    ELSE sql_query \o <<"LIMIT", "1">>

\* SQLValidationAgent._validate_execution, given what db.run gives
ValidateExecution(sql_query, outcome) ==
    IF ~outcome.raised
    THEN Passed(95, "execution")
    ELSE Failed(<<"Query execution failed: ">> \o outcome.text,
                IF Mentions(outcome.text, "not found") THEN <<Qualify(sql_query)>>
                ELSE IF Mentions(outcome.text, "invalid date")
                THEN <<ReplaceWord(sql_query, "CURDATE()", "CURRENT_DATE()")>>
                ELSE <<>>,
                "execution")

\* 'SELECT cost_analysis.*' has lower-case letters: it is never in query_upper
ValidatePerformance(sql_query) ==
    LET query_upper == UpperText(sql_query) IN
    IF /\ ~HasWord(query_upper, "LIMIT")
       /\ ~HasWord(query_upper, "COUNT(")
       /\ HasPhrase(query_upper, "SELECT", "*")
    THEN Failed(<<"Query may return too many rows, consider adding LIMIT">>,
                <<sql_query \o <<"LIMIT", "100">> >>, "performance")
    ELSE IF HasPhrase(query_upper, "SELECT", "*")
    THEN Failed(<<"Avoid SELECT * for better performance, specify columns">>,
                <<>>, "performance")
    ELSE Passed(75, "performance")

\* The two replace calls and the strip that remove the Markdown code fences
\* when the answer starts with the fence that opens a block of SQL
\* ("<fence>sql"; "<fence>" closes the block).
Unfence(text) ==
    IF text # <<>> /\ Head(text) = "<fence>sql"
    THEN Strip(Without(Without(text, "<fence>sql"), "<fence>"))
    ELSE text

\* SQLValidationAgent._generate_sql_improvement, given what self.llm.ainvoke gives
GenerateSqlImprovement(answer) ==
    IF answer.raised THEN <<>>
    ELSE LET improved_query == Unfence(Strip(answer.text)) IN
         IF /\ improved_query # <<>>
            /\ CharLen(improved_query) > 10
            /\ HasWord(UpperText(improved_query), "SELECT")
         THEN <<improved_query>>
         ELSE <<>>

\* The queries that are validated.
GoodQuery == <<"SELECT", "cost", "FROM", TableName(1), "LIMIT", "10">>
UnqualifiedQuery == <<"SELECT", "cost", "FROM", TableName(0), "LIMIT", "10">>

SqlInputs ==
    {GoodQuery,
     <<" ">> \o GoodQuery \o <<" ">>,
     UnqualifiedQuery,
     <<"SELECT", "cost">>,
     <<"DESCRIBE", TableName(0)>>,
     <<"SELECT", "cost", "FROM", TableName(1), "WHERE", "date", "=", "CURDATE()", "LIMIT", "10">>,
     <<"select", "cost", "from", TableName(1), "where", "date", "=", "curdate()", "limit", "10">>,
     <<"SELECT", "*", "FROM", TableName(1)>>,
     <<"SELECT", "ROWNUM", "FROM", TableName(1), "LIMIT", "10">>,
     <<" ">>}

\* The answers of the oracle to a request for an improved query.
SqlRepairAnswers(current_query) ==
    {OracleError,
     OracleAnswer(current_query),
     OracleAnswer(<<" ">> \o GoodQuery \o <<" ">>),
     OracleAnswer(<<"<fence>sql">> \o UnqualifiedQuery \o <<"<fence>">>),
     OracleAnswer(<<"SELECT", "1">>),
     OracleAnswer(<<"Sorry,", "no", "idea">>)}

----------------------------------------------------------------------------
\* The checks of the chart loop

\* validation_rules['chart_requirements'] of the modelled kinds
ChartRequirements ==
    [bar |-> [required_fields |-> <<"labels", "values">>,
              min_data_points |-> 1, max_data_points |-> 50],
     pie |-> [required_fields |-> <<"labels", "values">>,
              min_data_points |-> 2, max_data_points |-> 20],
     heatmap |-> [required_fields |-> <<"matrix", "rows", "cols">>,
                  min_data_points |-> 4, max_data_points |-> 10000]]

\* {}
EmptyDict == [f \in {} |-> <<>>]

\* chart_data.get(field, default)
Get(chart_data, field, default) ==
    IF field \in DOMAIN chart_data THEN chart_data[field] ELSE default

\* {'labels': labels, 'values': values}
LabelsValues(labels, values) == [labels |-> labels, values |-> values]

CountDataPoints(chart_data, t) ==
    IF t \in {"bar", "pie"} THEN Len(Get(chart_data, "values", <<>>))
    ELSE IF t = "heatmap"
    THEN LET matrix == Get(chart_data, "matrix", <<>>) IN
         Sum([i \in DOMAIN matrix |-> Len(matrix[i])], DOMAIN matrix)
    ELSE 0

\* A truncation that leaves the labels as they are.
TruncateData_ValuesOnly(chart_data, t, max_points) ==
    IF t \in {"bar", "pie"}
    THEN [f \in DOMAIN chart_data |->
            IF f = "values" THEN Take(chart_data[f], max_points) ELSE chart_data[f]]
    ELSE chart_data

\* GraphDataValidationAgent._truncate_data: nothing is cut for a heatmap
TruncateData(chart_data, t, max_points) ==
    IF t \in {"bar", "pie"}
    THEN [f \in DOMAIN chart_data |->
            IF f \in {"values", "labels"} THEN Take(chart_data[f], max_points)
            ELSE chart_data[f]]
    ELSE chart_data

ValidateDataStructure(chart_data, t) ==
    IF t \notin DOMAIN ChartRequirements
    THEN Failed(<<"Unsupported chart type: ", t>>, <<>>, "structure")
    ELSE LET requirements == ChartRequirements[t]
             missing_fields == SelectSeq(requirements.required_fields,
                                         LAMBDA f : f \notin DOMAIN chart_data)
             data_count == CountDataPoints(chart_data, t)
             min_points == requirements.min_data_points
             max_points == requirements.max_data_points
         IN IF missing_fields # <<>>
            THEN Failed(<<"Missing required fields for ", t, ": ">> \o missing_fields,
                        <<>>, "structure")
            ELSE IF data_count < min_points
            THEN Failed(<<"Insufficient data points: ", ToString(data_count), " < ",
                          ToString(min_points)>>, <<>>, "structure")
            ELSE IF data_count > max_points
            THEN Failed(<<"Too many data points: ", ToString(data_count), " > ",
                          ToString(max_points)>>,
                        <<TruncateData(chart_data, t, max_points)>>, "structure")
            ELSE Passed(90, "structure")

\* Every value of a modelled payload is an integer of at most 32 bits: it is
\* inside the range -1e15 < value < 1e15 that the code accepts.
ValidateNumericData(chart_data) == Passed(80, "numeric_data")

\* Every field of a modelled payload is a list: the isinstance tests pass.
ValidateDataTypes(chart_data, t) ==
    LET numeric_validation == ValidateNumericData(chart_data) IN
    IF ~numeric_validation.is_valid THEN numeric_validation
    ELSE Passed(85, "data_types")

\* value is None or value == '' or value == 'null', counted over the lists:
\* the elements of labels, rows and cols are strings, and an integer is never
\* missing
CountMissingData(chart_data) ==
    Sum([f \in DOMAIN chart_data |->
            IF f \in {"labels", "rows", "cols"}
            THEN Cardinality({i \in DOMAIN chart_data[f] : chart_data[f][i] \in {"", "null"}})
            ELSE 0],
        DOMAIN chart_data)

CountTotalDataElements(chart_data) ==
    Sum([f \in DOMAIN chart_data |-> Len(chart_data[f])], DOMAIN chart_data)

\* f"{a / b:.1%}"
Percent(a, b) ==
    LET tenths == (2000 * a + b) \div (2 * b) IN
    ToString(tenths \div 10) \o "." \o ToString(tenths % 10) \o "%"

\* With integers the variance is under the threshold 0.01 and all values are
\* identical exactly when all values are identical.
CheckDataVariance(chart_data) ==
    LET data == Get(chart_data, "values", <<>>) IN
    IF Len(data) > 1 /\ \A i \in DOMAIN data : data[i] = data[1]
    THEN Failed(<<"All data values are identical, no variation to visualize">>,
                <<>>, "data_variance")
    ELSE Passed(70, "data_variance")

\* duplicate_percentage > 0.05
CheckDuplicates(chart_data, t) ==
    LET labels == Get(chart_data, "labels", <<>>)
        unique_labels == {labels[i] : i \in DOMAIN labels}
        duplicates == Len(labels) - Cardinality(unique_labels)
    IN IF /\ t \in {"bar", "pie"}
          /\ "labels" \in DOMAIN chart_data
          /\ labels # <<>>
          /\ 100 * duplicates > 5 * Len(labels)
       THEN Failed(<<"Too many duplicate labels: ", Percent(duplicates, Len(labels))>>,
                   <<>>, "duplicates")
       ELSE Passed(80, "duplicates")

\* missing_percentage > 0.1, then the variance, then the duplicates
ValidateDataQuality(chart_data, t) ==
    LET missing_count == CountMissingData(chart_data)
        total_count == CountTotalDataElements(chart_data)
        variance_check == CheckDataVariance(chart_data)
        duplicate_check == CheckDuplicates(chart_data, t)
    IN IF total_count > 0 /\ 10 * missing_count > total_count
       THEN Failed(<<"Too much missing data: ", Percent(missing_count, total_count),
                     " > ", "10.0%">>, <<>>, "data_quality")
       ELSE IF ~variance_check.is_valid THEN variance_check
       ELSE IF ~duplicate_check.is_valid THEN duplicate_check
       ELSE Passed(75, "data_quality")

\* A pie check without the rule on negative values.
ValidatePieChart_AnySign(chart_data) ==
    IF "values" \in DOMAIN chart_data /\ "labels" \in DOMAIN chart_data
    THEN LET values == chart_data["values"]
             labels == chart_data["labels"]
         IN IF Len(values) # Len(labels)
            THEN Failed(<<"Values and labels length mismatch: ", ToString(Len(values)),
                          " vs ", ToString(Len(labels))>>, <<>>, "pie_specific")
            ELSE IF Sum(values, DOMAIN values) <= 0
            THEN Failed(<<"Pie chart values must sum to a positive number">>,
                        <<>>, "pie_specific")
            ELSE Passed(90, "pie_specific")
    ELSE Passed(90, "pie_specific")

ValidatePieChart(chart_data) ==
    IF "values" \in DOMAIN chart_data /\ "labels" \in DOMAIN chart_data
    THEN LET values == chart_data["values"]
             labels == chart_data["labels"]
         IN IF Len(values) # Len(labels)
            THEN Failed(<<"Values and labels length mismatch: ", ToString(Len(values)),
                          " vs ", ToString(Len(labels))>>, <<>>, "pie_specific")
            ELSE IF \E i \in DOMAIN values : values[i] < 0
            THEN Failed(<<"Pie charts cannot have negative values">>, <<>>, "pie_specific")
            ELSE IF Sum(values, DOMAIN values) <= 0
            THEN Failed(<<"Pie chart values must sum to a positive number">>,
                        <<>>, "pie_specific")
            ELSE Passed(90, "pie_specific")
    ELSE Passed(90, "pie_specific")

ValidateBarChart(chart_data) ==
    IF "values" \in DOMAIN chart_data /\ "labels" \in DOMAIN chart_data
    THEN LET values == chart_data["values"]
             labels == chart_data["labels"]
         IN IF Len(values) # Len(labels)
            THEN Failed(<<"Values and labels length mismatch: ", ToString(Len(values)),
                          " vs ", ToString(Len(labels))>>, <<>>, "bar_specific")
            ELSE Passed(90, "bar_specific")
    ELSE Passed(90, "bar_specific")

ValidateHeatmapChart(chart_data) ==
    IF "matrix" \in DOMAIN chart_data
    THEN LET matrix == chart_data["matrix"] IN
         IF matrix = <<>>
         THEN Failed(<<"Heatmap matrix must be a non-empty list">>, <<>>, "heatmap_specific")
         ELSE IF \E i \in DOMAIN matrix : Len(matrix[i]) # Len(matrix[1])
         THEN Failed(<<"Heatmap matrix rows must have equal length">>,
                     <<>>, "heatmap_specific")
         ELSE Passed(80, "heatmap_specific")
    ELSE Passed(80, "heatmap_specific")

ValidateChartSpecific(chart_data, t) ==
    IF t = "pie" THEN ValidatePieChart(chart_data)
    ELSE IF t = "bar" THEN ValidateBarChart(chart_data)
    ELSE IF t = "heatmap" THEN ValidateHeatmapChart(chart_data)
    ELSE Passed(70, "chart_specific")

\* GraphDataValidationAgent._validate_data_semantics, given what
\* self.llm.ainvoke gives
ValidateDataSemantics(answer) ==
    IF answer.raised
    THEN Passed(50, "semantic")
    ELSE IF answer.text # <<>> /\ Head(answer.text) = "VALID"
    THEN Passed(80, "semantic")
    ELSE Failed(<<"Semantic validation failed: ">> \o Strip(Without(answer.text, "INVALID:")),
                <<>>, "semantic")

\* GraphDataValidationAgent._apply_programmatic_fixes.  float(v) of an integer
\* v equals v, so the fix of a type issue leaves a payload equal to itself.
ApplyProgrammaticFixes(chart_data, t, error_message) ==
    LET values0 == Get(chart_data, "values", <<>>)
        labels0 == Get(chart_data, "labels", <<>>)
        emptied ==
            IF /\ (Mentions(error_message, "missing") \/ Mentions(error_message, "empty"))
               /\ t \in {"bar", "pie"}
               /\ "values" \in DOMAIN chart_data
               /\ values0 # <<>>
               /\ labels0 # <<>>
               /\ Len(labels0) > Len(values0) - 1
            THEN [chart_data EXCEPT !["labels"] = Take(labels0, Len(values0))]
            ELSE chart_data
        values == Get(emptied, "values", <<>>)
        other_data == Get(emptied, "labels", <<>>)
        min_length == Min(Len(values), Len(other_data))
        fixed_data ==
            IF /\ Mentions(error_message, "length mismatch")
               /\ t \in {"bar", "pie"}
               /\ min_length > 0
            THEN [f \in DOMAIN emptied \cup {"values", "labels"} |->
                    IF f = "values" THEN Take(values, min_length)
                    ELSE IF f = "labels" THEN Take(other_data, min_length)
                    ELSE emptied[f]]
            ELSE emptied
    IN IF fixed_data # chart_data THEN <<fixed_data>> ELSE <<>>

\* What the request for improved data gets when the oracle is asked: the
\* oracle raises, or answers a JSON text (json) or another text, and then the
\* visualization processor extracts data from the answer text (extracted).
RepairAnswer(called, raised, json, extracted) ==
    [called |-> called, raised |-> raised, json |-> json, extracted |-> extracted]

\* GraphDataValidationAgent._generate_data_improvement, given what
\* self.llm.ainvoke gives
GenerateDataImprovement(chart_data, t, error_message, answer) ==
    LET programmatic_fix == ApplyProgrammaticFixes(chart_data, t, error_message) IN
    IF programmatic_fix # <<>> /\ Truthy(programmatic_fix[1]) THEN programmatic_fix
    ELSE IF answer.raised THEN <<>>
    ELSE IF answer.json # <<>> THEN answer.json
    ELSE <<answer.extracted>>

\* The payloads that are validated.
SoundChart == LabelsValues(<<"A", "B", "C">>, <<10, 5, 20>>)
SoundHeatmap ==
    [matrix |-> << <<1, 2>>, <<3, 4>> >>, rows |-> <<"r1", "r2">>, cols |-> <<"c1", "c2">>]
NegativePie == LabelsValues(<<"A", "B", "C">>, <<10, -5, 20>>)
OversizedBar == LabelsValues([i \in 1..75 |-> "L" \o ToString(i)], [i \in 1..75 |-> i])

ChartInputs ==
    {[chart_type |-> "bar", data |-> SoundChart],
     [chart_type |-> "pie", data |-> SoundChart],
     [chart_type |-> "pie", data |-> NegativePie],
     [chart_type |-> "bar", data |-> OversizedBar],
     [chart_type |-> "bar", data |-> LabelsValues(<<"A", "B">>, <<10, 5, 20>>)],
     [chart_type |-> "bar", data |-> LabelsValues(<<"A", "B", "C">>, <<7, 7, 7>>)],
     [chart_type |-> "bar", data |-> LabelsValues(<<"A", "A", "B">>, <<1, 2, 3>>)],
     [chart_type |-> "bar", data |-> LabelsValues(<<"A", "", "C">>, <<1, 2>>)],
     [chart_type |-> "bar", data |-> [labels |-> <<"A", "B", "C">>]],
     [chart_type |-> "bar", data |-> EmptyDict],
     [chart_type |-> "pie", data |-> LabelsValues(<<"A">>, <<1>>)],
     [chart_type |-> "heatmap", data |-> SoundHeatmap],
     [chart_type |-> "heatmap",
      data |-> [SoundHeatmap EXCEPT !.matrix = << <<1, 2, 3>>, <<4>> >>]],
     [chart_type |-> "radar", data |-> SoundChart]}

\* a payload of the kind t that passes the checks of the code
SoundPayload(t) == IF t = "heatmap" THEN SoundHeatmap ELSE SoundChart

\* The outcomes of a request for improved data: the oracle is asked only when
\* no programmatic fix is found.
ChartRepairAnswers(chart_data, t, error_message) ==
    IF ApplyProgrammaticFixes(chart_data, t, error_message) # <<>>
    THEN {RepairAnswer("none", FALSE, <<>>, EmptyDict)}
    ELSE {RepairAnswer("oracle", TRUE, <<>>, EmptyDict),
          RepairAnswer("oracle", FALSE, <<chart_data>>, EmptyDict),
          RepairAnswer("oracle", FALSE, <<SoundPayload(t)>>, EmptyDict),
          RepairAnswer("oracle", FALSE, <<>>, EmptyDict),
          RepairAnswer("oracle", FALSE, <<>>, SoundPayload(t))}

----------------------------------------------------------------------------
\* The loop

\* _validate_single_iteration: the checks in the order in which they are run
SqlChecks == <<"syntax", "bigquery_specific", "semantic", "execution", "performance">>
GraphChecks == <<"structure", "data_types", "data_quality", "chart_specific", "semantic">>

Checks(l) == IF l = "sql" THEN SqlChecks ELSE GraphChecks

\* What the check may get from outside: the semantic check asks the oracle,
\* the execution check runs the query on the warehouse.
Outcomes(l, name) ==
    IF name = "semantic" THEN SemanticAnswers
    ELSE IF name = "execution" THEN WarehouseOutcomes
    ELSE {NoCall}

\* The finding of one check of _validate_single_iteration.
SingleCheck(l, name, a, t, outcome) ==
    IF l = "sql"
    THEN CASE name = "syntax" -> ValidateSyntax(a)
           [] name = "bigquery_specific" -> ValidateBigquerySpecifics(a)
           [] name = "semantic" -> ValidateSemantics(outcome)
           [] name = "execution" -> ValidateExecution(a, outcome)
           [] name = "performance" -> ValidatePerformance(a)
    ELSE CASE name = "structure" -> ValidateDataStructure(a, t)
           [] name = "data_types" -> ValidateDataTypes(a, t)
           [] name = "data_quality" -> ValidateDataQuality(a, t)
           [] name = "chart_specific" -> ValidateChartSpecific(a, t)
           [] name = "semantic" -> ValidateDataSemantics(outcome)

\* What the check was given: the dry run gets the query with its row cap.
CheckedText(l, name, a) == IF name = "execution" THEN TestQuery(a) ELSE a

\* the final finding of an iteration whose checks all passed
CompleteIteration(i) == Passed(95, "complete_iteration_" \o ToString(i))

\* An entry of the history.
Event(i, op, arg, outcome, finding, result) ==
    [iteration |-> i, op |-> op, arg |-> arg, called |-> outcome.called,
     raised |-> outcome.raised, finding |-> finding, result |-> result]

NoFinding == Passed(0, "none")

\* A loop over one value more.
InRange_OneMore(i) == i <= max_iterations + 1

\* for iteration in range(1, self.max_iterations + 1)
InRange(i) == i <= max_iterations

\* A loop that keeps the text as it was given.
EntryArtifact_AsGiven(l, a) == a

\* current_query = sql_query.strip(); current_data = chart_data.copy()
EntryArtifact(l, a) == IF l = "sql" THEN Strip(a) ELSE a

\* A chain of checks that goes on after a failing check.
ReturnsFinding_Never(finding) == FALSE

\* if not result.is_valid: return result
ReturnsFinding(finding) == ~finding.is_valid

\* A loop that ignores the suggested fix.
UsesSuggestedFix_Never(finding) == FALSE

\* if validation_result.suggested_fix:
UsesSuggestedFix(finding) ==
    finding.suggested_fix # <<>> /\ Truthy(finding.suggested_fix[1])

\* A loop that goes on with any improvement.
MadeProgress_AnyAnswer(improved, current) == improved # <<>> /\ Truthy(improved[1])

\* if improved_query and improved_query != current_query:
MadeProgress(improved, current) ==
    improved # <<>> /\ Truthy(improved[1]) /\ improved[1] # current

\* the report of the return statement inside the loop
SucceededReport(current, i) ==
    [original |-> artifact, final |-> current, iterations |-> i, success |-> TRUE,
     final_error |-> None]

\* the report of the return statement after the loop
FailedReport(current, findings) ==
    [original |-> artifact, final |-> current, iterations |-> max_iterations,
     success |-> FALSE,
     final_error |-> IF findings # <<>> THEN findings[Len(findings)].error_message
                     ELSE <<"Unknown validation error">>]

\* The for statement takes its next value i, or the loop is left and the
\* code after it returns.
ForLoop(i, current) ==
    IF InRange(i)
    THEN /\ iteration' = i
         /\ check_index' = 1
         /\ vpc' = "check"
         /\ UNCHANGED report
    ELSE /\ vpc' = "done"
         /\ report' = FailedReport(current, validation_results)
         /\ UNCHANGED <<iteration, check_index>>

ValidationInit ==
    /\ PipelineInit
    /\ steps = DefaultPipeline
    /\ initial_data = {}
    /\ max_retries = 0
    /\ \/ /\ loop = "sql"
          /\ chart_type = ""
          /\ artifact \in SqlInputs
       \/ /\ loop = "chart"
          /\ \E input \in ChartInputs :
                chart_type = input.chart_type /\ artifact = input.data
    /\ max_iterations \in 1..MaxIterations
    /\ vpc = "start"
    /\ current_artifact = <<>>
    /\ NoSequential
    /\ NoCoordinator
    /\ iteration = 0
    /\ check_index = 0
    /\ validation_results = <<>>
    /\ history = <<>>
    /\ report = <<>>

\* validation_results = []; current_query = sql_query.strip(); for ...
ValidationBegin ==
    /\ vpc = "start"
    /\ current_artifact' = EntryArtifact(loop, artifact)
    /\ ForLoop(1, current_artifact')
    /\ UNCHANGED <<loop, chart_type, artifact, max_iterations, validation_results, history>>
    /\ UNCHANGED <<static, sched, inflight, sequential, coordinator>>

\* One check of _validate_single_iteration, on current_artifact: a failing
\* finding is returned at once and recorded; after the last check the final
\* finding is recorded and the loop returns its report.
RunCheck ==
    /\ vpc = "check"
    /\ LET name == Checks(loop)[check_index] IN
       \E outcome \in Outcomes(loop, name) :
          LET finding == SingleCheck(loop, name, current_artifact, chart_type, outcome) IN
          /\ history' = Append(history,
                               Event(iteration, name,
                                     CheckedText(loop, name, current_artifact),
                                     outcome, finding, <<>>))
          /\ IF ReturnsFinding(finding)
             THEN /\ validation_results' = Append(validation_results, finding)
                  /\ vpc' = "repair"
                  /\ UNCHANGED <<check_index, report>>
             ELSE IF check_index < Len(Checks(loop))
             THEN /\ check_index' = check_index + 1
                  /\ UNCHANGED <<vpc, validation_results, report>>
             ELSE /\ validation_results' =
                        Append(validation_results, CompleteIteration(iteration))
                  /\ report' = SucceededReport(current_artifact, iteration)
                  /\ vpc' = "done"
                  /\ UNCHANGED check_index
    /\ UNCHANGED <<loop, chart_type, artifact, max_iterations, current_artifact, iteration>>
    /\ UNCHANGED <<static, sched, inflight, sequential, coordinator>>

\* current_query = validation_result.suggested_fix
ApplySuggestedFix ==
    /\ vpc = "repair"
    /\ LET validation_result == validation_results[Len(validation_results)] IN
       /\ UsesSuggestedFix(validation_result)
       /\ current_artifact' = validation_result.suggested_fix[1]
       /\ history' = Append(history,
                            Event(iteration, "suggested_fix", current_artifact, NoCall,
                                  NoFinding, validation_result.suggested_fix))
    /\ ForLoop(iteration + 1, current_artifact')
    /\ UNCHANGED <<loop, chart_type, artifact, max_iterations, validation_results>>
    /\ UNCHANGED <<static, sched, inflight, sequential, coordinator>>

\* The answers that the request for an improvement may get.
RepairAnswers(l, current, t, error_message) ==
    IF l = "sql" THEN SqlRepairAnswers(current)
    ELSE ChartRepairAnswers(current, t, error_message)

\* _generate_sql_improvement / _generate_data_improvement
GenerateImprovementResult(l, current, t, error_message, answer) ==
    IF l = "sql" THEN GenerateSqlImprovement(answer)
    ELSE GenerateDataImprovement(current, t, error_message, answer)

\* improved = await self._generate_..._improvement(...); the improvement
\* becomes the current artifact, or the loop breaks
GenerateImprovement ==
    /\ vpc = "repair"
    /\ LET validation_result == validation_results[Len(validation_results)] IN
       /\ ~UsesSuggestedFix(validation_result)
       /\ \E answer \in RepairAnswers(loop, current_artifact, chart_type,
                                     validation_result.error_message) :
             LET improved == GenerateImprovementResult(loop, current_artifact, chart_type,
                                                       validation_result.error_message,
                                                       answer)
             IN /\ history' = Append(history,
                                     Event(iteration, "generate_improvement",
                                           current_artifact, answer, NoFinding, improved))
                /\ IF MadeProgress(improved, current_artifact)
                   THEN /\ current_artifact' = improved[1]
                        /\ ForLoop(iteration + 1, current_artifact')
                   ELSE /\ vpc' = "done"
                        /\ report' = FailedReport(current_artifact, validation_results)
                        /\ UNCHANGED <<current_artifact, iteration, check_index>>
    /\ UNCHANGED <<loop, chart_type, artifact, max_iterations, validation_results>>
    /\ UNCHANGED <<static, sched, inflight, sequential, coordinator>>

ValidationNext ==
    \/ ValidationBegin
    \/ RunCheck
    \/ ApplySuggestedFix
    \/ GenerateImprovement

ValidationSpec == ValidationInit /\ [][ValidationNext]_vars

\* Every call of the oracle and of the warehouse returns or raises.
FairValidationSpec == ValidationSpec /\ WF_vars(ValidationNext)

----------------------------------------------------------------------------
\* The sequential runs: PipelineService.execute over a pipeline built by
\* PipelineFactory, and PipelineAgent._execute_sequential_pipeline.

\* A step of pipeline/steps
FactoryStep(name, required, outputs, writes, reads, validates, condition, faults) ==
    [PlainStep(name, required, outputs, writes, faults)
        EXCEPT !.reads = reads, !.validates = validates, !.condition = condition]

\* "invalid": validate_input finds the question blank.
InputProcessingStep ==
    FactoryStep("input_processing", {"question"},
                {"processed_question", "metadata", "settings"},
                {"processed_question", "metadata", "settings", "original_input"},
                {"question"}, {"question"}, {}, {"invalid"})

SQLGenerationStep ==
    FactoryStep("sql_generation", {"processed_question", "settings"},
                {"sql_query", "llm_response", "generation_metadata"},
                {"sql_query", "llm_response", "generation_metadata"},
                {"processed_question", "settings"}, {}, {}, {"failed"})

\* "skipped": validation is disabled in the settings or the query is empty.
\* "invalid": the query is empty.  A failed result carries the findings.
SQLValidationStep ==
    [FactoryStep("sql_validation", {"sql_query", "settings"},
                 {"validated_sql", "validation_results", "validation_metadata"},
                 {"validated_sql", "validation_results", "validation_metadata"},
                 {"sql_query", "settings"}, {"sql_query"}, {"sql_query"},
                 {"failed", "skipped", "invalid"})
        EXCEPT !.failed_writes = {"validated_sql", "validation_results",
                                  "validation_metadata"}]

\* "invalid": validated_sql and sql_query are both empty.
SQLExecutionStep ==
    FactoryStep("sql_execution", {"sql_query"},
                {"query_result", "execution_metadata"},
                {"query_result", "execution_metadata", "executed_sql"},
                {}, {"validated_sql", "sql_query"}, {}, {"failed", "invalid"})

VisualizationDetectionStep ==
    FactoryStep("visualization_detection", {"processed_question", "query_result"},
                {"visualization_type", "detection_metadata"},
                {"visualization_type", "detection_metadata"},
                {"processed_question"}, {}, {}, {})

ChartDataExtractionStep ==
    FactoryStep("chart_data_extraction",
                {"visualization_type", "query_result", "llm_response"},
                {"chart_data", "extraction_metadata"},
                {"chart_data", "extraction_metadata"},
                {"visualization_type"}, {}, {}, {"failed"})

\* "skipped": validation is disabled in the settings or the chart has no data.
DataValidationStep ==
    [FactoryStep("data_validation", {"chart_data", "visualization_type"},
                 {"validated_chart_data", "data_validation_results"},
                 {"validated_chart_data", "data_validation_results"},
                 {"chart_data", "visualization_type"}, {}, {"chart_data"},
                 {"failed", "skipped"})
        EXCEPT !.failed_writes = {"validated_chart_data", "data_validation_results"}]

ResponseFormattingStep ==
    FactoryStep("response_formatting", {"processed_question"},
                {"final_response"}, {"final_response"}, {}, {}, {}, {})

\* step.should_execute = lambda data: True
AlwaysExecute(step) ==
    [step EXCEPT !.condition = {}, !.faults = @ \ {"skipped"}]

VisualizationProcessing ==
    ParallelStep("visualization_processing",
                 <<VisualizationDetectionStep, ChartDataExtractionStep>>, {})

\* PipelineFactory.create_custom_pipeline
CustomPipeline(enable_sql_validation, enable_data_validation, use_parallel_processing) ==
    <<InputProcessingStep, SQLGenerationStep>>
    \o (IF enable_sql_validation THEN <<SQLValidationStep>> ELSE <<>>)
    \o <<SQLExecutionStep>>
    \o (IF use_parallel_processing THEN <<VisualizationProcessing>>
        ELSE <<VisualizationDetectionStep, ChartDataExtractionStep>>)
    \o (IF enable_data_validation THEN <<DataValidationStep>> ELSE <<>>)
    \o <<ResponseFormattingStep>>

\* PipelineFactory.create_standard_pipeline
StandardPipeline ==
    <<InputProcessingStep, SQLGenerationStep, SQLValidationStep, SQLExecutionStep,
      VisualizationProcessing, DataValidationStep, ResponseFormattingStep>>

\* PipelineFactory.create_simple_pipeline
SimplePipeline ==
    <<InputProcessingStep, SQLGenerationStep, SQLExecutionStep,
      VisualizationDetectionStep, ChartDataExtractionStep, ResponseFormattingStep>>

\* PipelineFactory.create_validation_heavy_pipeline
ValidationHeavyPipeline ==
    <<InputProcessingStep, SQLGenerationStep, AlwaysExecute(SQLValidationStep),
      SQLExecutionStep, VisualizationDetectionStep, ChartDataExtractionStep,
      AlwaysExecute(DataValidationStep), ResponseFormattingStep>>

FactoryPipelines ==
    {StandardPipeline, SimplePipeline, ValidationHeavyPipeline}
    \cup {CustomPipeline(a, b, c) : a, b, c \in BOOLEAN}

\* The input_data of PipelineService.execute: no question, or a question
ServiceInputs == { {}, {<<"question", "caller">>} }

\* The ways a run of the step can end
Kinds(step) == {"success"} \cup step.faults

\* ConditionalStep.run: the step is skipped
Skips(step, input_data, kind) ==
    /\ step.condition # {}
    /\ (~(step.condition \subseteq Keys(input_data)) \/ kind = "skipped")

\* BaseStep.run: validate_input returns False
Rejects(step, input_data, kind) ==
    /\ step.validates # {}
    /\ (step.validates \cap Keys(input_data) = {} \/ kind = "invalid")

\* step.run(input_data) of a step without sub-steps
BaseRun(step, input_data, kind) ==
    IF Skips(step, input_data, kind)
    THEN StepResult(step.name, "skipped", input_data, None)
    ELSE IF Rejects(step, input_data, kind)
    THEN StepResult(step.name, "failed", {}, <<"Input validation failed">>)
    ELSE StepRun(step, input_data, kind)

\* The way each sub-step of a ParallelStep ends
SubKinds(step) ==
    {f \in [DOMAIN step.sub_steps -> UNION {Kinds(step.sub_steps[i]) : i \in DOMAIN step.sub_steps}] :
        \A i \in DOMAIN f : f[i] \in Kinds(step.sub_steps[i])}

\* step.run(input_data)
Run(step, input_data, kind, sub_kinds) ==
    IF step.sub_steps = <<>> THEN BaseRun(step, input_data, kind)
    ELSE ParallelStepExecute(step, input_data,
            [i \in DOMAIN step.sub_steps |->
                BaseRun(step.sub_steps[i], input_data, sub_kinds[i])])

\* The execute() bodies that step.run(input_data) enters, in order
Entered(step, input_data, kind, sub_kinds) ==
    LET enters(st, k) == ~Skips(st, input_data, k) /\ ~Rejects(st, input_data, k)
        entry(st) == [step |-> st.name, received |-> Keys(input_data)]
    IN  IF step.sub_steps = <<>>
        THEN IF enters(step, kind) THEN <<entry(step)>> ELSE <<>>
        ELSE <<entry(step)>>
             \o (IF enters(step.sub_steps[1], sub_kinds[1])
                 THEN <<entry(step.sub_steps[1])>> ELSE <<>>)
             \o (IF enters(step.sub_steps[2], sub_kinds[2])
                 THEN <<entry(step.sub_steps[2])>> ELSE <<>>)

\* Mutant: a failed step does not stop the run.
StopsRun_Never(st) == FALSE

\* elif result.status == StepStatus.FAILED: return / break
StopsRun(st) == st = "failed"

SequentialInit ==
    /\ \/ /\ runner = "service"
          /\ steps \in FactoryPipelines
          /\ initial_data \in ServiceInputs
          /\ max_retries = 0
       \/ /\ runner = "agent"
          /\ steps \in {DefaultPipeline, ChainPipeline}
          /\ initial_data \in InitialBags
          /\ max_retries \in 0..MaxRetries
    /\ pc = "start"
    /\ dependency_graph = [n \in Names(steps) |-> {}]
    /\ executed_steps = {}
    /\ results = <<>>
    /\ current_data = {}
    /\ ready_steps = <<>>
    /\ tasks = [n \in Names(steps) |-> IdleTask]
    /\ completed = <<>>
    /\ dispatches = <<>>
    /\ cycle_logged = FALSE
    /\ status = "none"
    /\ subs = [n \in SubNames(steps) |-> IdleSub]
    /\ sub_completed = <<>>
    /\ step_results = <<>>
    /\ index = 0
    /\ runs = <<>>
    /\ pipeline_error = None
    /\ NoValidation
    /\ NoCoordinator

\* step_results = [] / results = []; current_data = input_data.copy()
SequentialBegin ==
    /\ pc = "start"
    /\ pc' = "loop"
    /\ results' = <<>>
    /\ current_data' = initial_data
    /\ index' = 1
    /\ UNCHANGED <<validation, coordinator, static, dependency_graph, executed_steps, ready_steps,
                   dispatches, cycle_logged, status, inflight, runner, runs,
                   pipeline_error>>

\* PipelineService.execute: one turn of the for loop
ServiceStep ==
    /\ runner = "service"
    /\ pc = "loop"
    /\ index <= Len(steps)
    /\ LET step == steps[index] IN
       \E kind \in Kinds(step), sub_kinds \in SubKinds(step) :
          LET result == Run(step, current_data, kind, sub_kinds) IN
          /\ results' = Append(results, result)
          /\ runs' = runs \o Entered(step, current_data, kind, sub_kinds)
          /\ current_data' = MergeResult(current_data, result)
          /\ IF StopsRun(result.status)
             THEN /\ pc' = "done"
                  /\ status' = "failed"
                  /\ pipeline_error' = <<"Pipeline failed at step '", step.name, "': ">>
                                       \o result.error
                  /\ UNCHANGED index
             ELSE /\ index' = index + 1
                  /\ UNCHANGED <<pc, status, pipeline_error>>
    /\ UNCHANGED <<validation, coordinator, static, dependency_graph, executed_steps, ready_steps,
                   dispatches, cycle_logged, inflight, runner>>

\* PipelineService.execute: the for loop is over, PipelineResult(success=True, ...)
ServiceReturn ==
    /\ runner = "service"
    /\ pc = "loop"
    /\ index > Len(steps)
    /\ pc' = "done"
    /\ status' = "success"
    /\ UNCHANGED <<validation, coordinator, static, dependency_graph, executed_steps, results,
                   current_data, ready_steps, dispatches, cycle_logged, inflight,
                   sequential>>

\* _execute_sequential_pipeline: await self._execute_step_with_retry(step, current_data)
AgentRunStep ==
    /\ runner = "agent"
    /\ pc = "loop"
    /\ index <= Len(steps)
    /\ LET step == steps[index] IN
       /\ tasks' = [tasks EXCEPT ![step.name] = StartTask(step)]
       /\ runs' = Append(runs, [step |-> step.name, received |-> Keys(current_data)])
    /\ completed' = <<>>
    /\ pc' = "await"
    /\ UNCHANGED <<validation, coordinator, static, dependency_graph, executed_steps, results,
                   current_data, ready_steps, dispatches, cycle_logged, status,
                   subs, sub_completed, step_results, runner, index, pipeline_error>>

\* _execute_sequential_pipeline: the wrapper has returned (or raised: the
\* except branch records a failed result and breaks)
AgentStepDone ==
    /\ runner = "agent"
    /\ pc = "await"
    /\ tasks[steps[index].name].phase = "done"
    /\ LET step_result == tasks[steps[index].name].result IN
       IF step_result.status = "exception"
       THEN /\ results' = Append(results,
                             StepResult(steps[index].name, "failed", current_data,
                                        <<"Unexpected error: ">> \o step_result.error))
            /\ pc' = "return"
            /\ UNCHANGED <<current_data, index>>
       ELSE /\ results' = Append(results, step_result)
            /\ current_data' = MergeResult(current_data, step_result)
            /\ IF StopsRun(step_result.status)
               THEN pc' = "return" /\ UNCHANGED index
               ELSE pc' = "loop" /\ index' = index + 1
    /\ UNCHANGED <<validation, coordinator, static, dependency_graph, executed_steps, ready_steps,
                   dispatches, cycle_logged, status, inflight, runner, runs,
                   pipeline_error>>

\* _execute_sequential_pipeline: the for loop is over
AgentLoopEnd ==
    /\ runner = "agent"
    /\ pc = "loop"
    /\ index > Len(steps)
    /\ pc' = "return"
    /\ UNCHANGED <<validation, coordinator, static, dependency_graph, executed_steps, results,
                   current_data, ready_steps, dispatches, cycle_logged, status,
                   inflight, sequential>>

SequentialNext ==
    \/ SequentialBegin
    \/ ServiceStep
    \/ ServiceReturn
    \/ AgentRunStep
    \/ \E n \in Names(steps) : AttemptReturns(n)
    \/ \E n \in Names(steps) : AttemptTimesOut(n)
    \/ \E n \in Names(steps) : AttemptRaises(n)
    \/ \E n \in Names(steps) : SleepEnds(n)
    \/ AgentStepDone
    \/ AgentLoopEnd
    \/ BuildFinalResult

SequentialSpec == SequentialInit /\ [][SequentialNext]_vars

----------------------------------------------------------------------------
\* The validation coordinator (ValidationCoordinator.validate_complete_pipeline)
\* The two validation loops and _execute_validated_sql catch their own
\* exceptions, so the except branch of the coordinator has no raise site here.

\* VisualizationProcessor.visualization_patterns, for the chart types whose
\* requirements are modelled; "table" is a hint that names no pattern.
VisualizationPatterns ==
    [bar |-> {"top", "highest", "lowest", "ranking", "best", "worst", "compare"},
     pie |-> {"distribution", "breakdown", "proportion", "percentage", "split",
              "composition"},
     heatmap |-> {"matrix", "grid", "cross-reference"}]

\* The order in which the for statement over the patterns meets the types
PatternOrder == <<"bar", "pie", "heatmap">>

\* any(pattern in question_lower for pattern in patterns), a question being
\* the sequence of its lower-case words
MatchesPattern(words, patterns) == \E i \in DOMAIN words : words[i] \in patterns

\* extract_chart_data: the payload that the extractor of the type finds in
\* the answer, wrapped as {"type": viz_type, "data": {...}}
ExtractChartData(answer, viz_type) == [type |-> viz_type, data |-> answer.extracted]

\* determine_visualization(question, answer, hint): (viz_type, chart_data),
\* viz_type an Optional. An answer is its extractable payload and whether it
\* holds a numbered list ("1." in answer).
DetermineVisualization(words, answer, hint) ==
    LET found(t) == [viz_type |-> <<t>>, chart_data |-> ExtractChartData(answer, t)]
        matching == {i \in DOMAIN PatternOrder :
                        MatchesPattern(words, VisualizationPatterns[PatternOrder[i]])}
    IN  IF hint # <<>> /\ hint[1] \in DOMAIN VisualizationPatterns
        THEN found(hint[1])
        ELSE IF matching # {}
        THEN found(PatternOrder[CHOOSE i \in matching : \A j \in matching : i <= j])
        ELSE IF answer.numbered
        THEN found("bar")
        ELSE [viz_type |-> <<>>, chart_data |-> EmptyDict]

\* What db.run(sql_query) does with the validated query: a result (possibly
\* the empty string) or an exception, whose message may be empty
\* (TimeoutError()).
ExecutionOutcomes ==
    {[raised |-> FALSE, text |-> <<"rows">>],
     [raised |-> FALSE, text |-> <<>>],
     [raised |-> TRUE, text |-> <<"Table not found">>],
     [raised |-> TRUE, text |-> <<>>]}

\* _execute_validated_sql: (result, None), or (None, str(e))
ExecuteValidatedSqlResult(outcome) ==
    IF outcome.raised
    THEN [executed_data |-> <<>>, execution_error |-> <<outcome.text>>]
    ELSE [executed_data |-> <<outcome.text>>, execution_error |-> <<>>]

\* if execution_error:
ExecutionFailed(execution_error) ==
    execution_error # <<>> /\ Truthy(execution_error[1])

\* Mutant: the chart loop is run whatever the detection finds.
NoVisualization_Never(viz_type) == FALSE

\* if not viz_type:
NoVisualization(viz_type) == viz_type = <<>>

\* str(viz_type)
TypeName(viz_type) == IF viz_type = <<>> THEN "None" ELSE viz_type[1]

\* The ValidationCoordinatorReport (without its timing)
CoordinatorReport(sql_rep, graph_rep, final_result, iterations, success, error) ==
    [sql_report |-> sql_rep, graph_report |-> graph_rep, final_result |-> final_result,
     total_iterations |-> iterations, success |-> success, coordinator_error |-> error]

\* The report returned when the SQL validation loop failed
SqlFailedReport(req, sql_rep, iterations) ==
    CoordinatorReport(<<sql_rep>>, <<>>,
                      [success |-> FALSE,
                       error |-> <<"SQL validation failed: ">> \o sql_rep.final_error,
                       sql_query |-> sql_rep.final,
                       answer |-> req.answer],
                      iterations, FALSE, <<"SQL validation failed">>)

\* The report returned when the execution of the validated query failed
ExecutionFailedReport(req, sql_rep, execution_error, iterations) ==
    CoordinatorReport(<<sql_rep>>, <<>>,
                      [success |-> FALSE,
                       error |-> <<"SQL execution failed: ">> \o execution_error,
                       sql_query |-> sql_rep.final,
                       answer |-> req.answer],
                      iterations, FALSE, <<"SQL execution failed">>)

\* The report returned when no visualization type is detected
NoVisualizationReport(req, sql_rep, iterations) ==
    CoordinatorReport(<<sql_rep>>, <<>>,
                      [success |-> TRUE,
                       answer |-> req.answer,
                       sql_query |-> sql_rep.final,
                       visualization |-> None,
                       warning |-> <<"No visualization could be generated">>],
                      iterations, TRUE, None)

\* The warnings of _combine_validation_results
CombineWarnings(sql_rep, graph_rep) ==
    (IF sql_rep.iterations > 5 THEN <<"SQL required many validation iterations">>
     ELSE <<>>)
    \o (IF graph_rep.iterations > 5
        THEN <<"Graph data required many validation iterations">> ELSE <<>>)
    \o (IF ~graph_rep.success THEN <<"Graph validation failed">> ELSE <<>>)
    \o (IF sql_rep.final # sql_rep.original
        THEN <<"SQL query was modified during validation">> ELSE <<>>)
    \o (IF graph_rep.final # graph_rep.original
        THEN <<"Chart data was modified during validation">> ELSE <<>>)

\* _combine_validation_results (without the metadata)
CombineValidationResults(req, sql_rep, graph_rep, t) ==
    LET warnings == CombineWarnings(sql_rep, graph_rep)
        base == [success |-> sql_rep.success /\ graph_rep.success,
                 answer |-> req.answer,
                 sql_query |-> sql_rep.final]
        chart == IF graph_rep.success /\ Truthy(graph_rep.final)
                 THEN [visualization |-> t, chart_data |-> graph_rep.final]
                 ELSE EmptyDict
        warned == IF warnings # <<>> THEN [warnings |-> warnings] ELSE EmptyDict
    IN  base @@ chart @@ warned

\* The arguments of validate_complete_pipeline
Requests ==
    [question : {<<"top", "services">>, <<"cost", "breakdown">>, <<"usage", "matrix">>,
                 <<"list", "services">>},
     answer : {[numbered |-> FALSE, extracted |-> SoundChart],
               [numbered |-> TRUE, extracted |-> EmptyDict]},
     expected_viz_type : {<<>>, <<"pie">>, <<"table">>},
     sql_query : {GoodQuery, <<"SELECT", "cost">>}]

CoordinatorInit ==
    /\ PipelineInit
    /\ steps = DefaultPipeline
    /\ initial_data = {}
    /\ max_retries = 0
    /\ NoValidation
    /\ NoSequential
    /\ cpc = "idle"
    /\ request \in Requests
    /\ sql_report = <<>>
    /\ execution = <<>>
    /\ viz = <<>>
    /\ graph_report = <<>>
    /\ total_iterations = 0
    /\ coordinator_report = <<>>
    /\ phases = <<>>

\* A validation loop is called: validate_sql_iteratively(sql_query, ...) or
\* validate_graph_data_iteratively(chart_data, chart_type, ...)
CallLoop(l, t, a) ==
    /\ loop' = l
    /\ chart_type' = t
    /\ artifact' = a
    /\ vpc' = "start"
    /\ current_artifact' = <<>>
    /\ iteration' = 0
    /\ check_index' = 0
    /\ validation_results' = <<>>
    /\ history' = <<>>
    /\ report' = <<>>
    /\ UNCHANGED max_iterations

\* Phase 1: the SQL validation loop is called.
ValidateSql ==
    /\ cpc = "idle"
    /\ cpc' = "sql"
    /\ phases' = Append(phases, "sql")
    /\ CallLoop("sql", "", request.sql_query)
    /\ UNCHANGED <<request, sql_report, execution, viz, graph_report,
                   total_iterations, coordinator_report>>
    /\ UNCHANGED <<static, sched, inflight, sequential>>

\* The SQL validation loop returns: total_iterations += sql_report.iterations;
\* if not sql_report.success: return the failed report.
SqlValidationReturns ==
    /\ cpc = "sql"
    /\ vpc = "done"
    /\ sql_report' = <<report>>
    /\ total_iterations' = total_iterations + report.iterations
    /\ IF ~report.success
       THEN /\ cpc' = "done"
            /\ coordinator_report' = <<SqlFailedReport(request, report, total_iterations')>>
            /\ UNCHANGED phases
       ELSE /\ cpc' = "execute"
            /\ phases' = Append(phases, "execute")
            /\ UNCHANGED coordinator_report
    /\ UNCHANGED <<request, execution, viz, graph_report>>
    /\ UNCHANGED <<static, sched, inflight, sequential, validation>>

\* Phase 2: the validated query is executed; if execution_error: return the
\* failed report.
ExecuteValidatedSql ==
    /\ cpc = "execute"
    /\ \E outcome \in ExecutionOutcomes :
          LET result == ExecuteValidatedSqlResult(outcome) IN
          /\ execution' = <<result>>
          /\ IF ExecutionFailed(result.execution_error)
             THEN /\ cpc' = "done"
                  /\ coordinator_report' =
                        <<ExecutionFailedReport(request, sql_report[1],
                                                result.execution_error[1],
                                                total_iterations)>>
                  /\ UNCHANGED phases
             ELSE /\ cpc' = "detect"
                  /\ phases' = Append(phases, "detect")
                  /\ UNCHANGED coordinator_report
    /\ UNCHANGED <<request, sql_report, viz, graph_report, total_iterations>>
    /\ UNCHANGED <<static, sched, inflight, sequential, validation>>

\* Phase 3: the visualization is determined; if not viz_type: return the
\* successful report without visualization. Phase 4: otherwise the chart
\* validation loop is called.
DetectVisualization ==
    /\ cpc = "detect"
    /\ LET found == DetermineVisualization(request.question, request.answer,
                                           request.expected_viz_type)
       IN  /\ viz' = <<found>>
           /\ IF NoVisualization(found.viz_type)
              THEN /\ cpc' = "done"
                   /\ coordinator_report' =
                         <<NoVisualizationReport(request, sql_report[1], total_iterations)>>
                   /\ UNCHANGED <<phases, validation>>
              ELSE /\ cpc' = "chart"
                   /\ phases' = Append(phases, "chart")
                   /\ CallLoop("chart", TypeName(found.viz_type), found.chart_data)
                   /\ UNCHANGED coordinator_report
    /\ UNCHANGED <<request, sql_report, execution, graph_report, total_iterations>>
    /\ UNCHANGED <<static, sched, inflight, sequential>>

\* The chart validation loop returns: total_iterations +=
\* graph_report.iterations; Phase 5: the results are combined.
ChartValidationReturns ==
    /\ cpc = "chart"
    /\ vpc = "done"
    /\ graph_report' = <<report>>
    /\ total_iterations' = total_iterations + report.iterations
    /\ coordinator_report' =
          <<CoordinatorReport(sql_report, <<report>>,
                              CombineValidationResults(request, sql_report[1], report,
                                                       chart_type),
                              total_iterations',
                              sql_report[1].success /\ report.success, None)>>
    /\ cpc' = "done"
    /\ UNCHANGED <<request, sql_report, execution, viz, phases>>
    /\ UNCHANGED <<static, sched, inflight, sequential, validation>>

CoordinatorNext ==
    \/ ValidateSql
    \/ ValidationBegin
    \/ RunCheck
    \/ ApplySuggestedFix
    \/ GenerateImprovement
    \/ SqlValidationReturns
    \/ ExecuteValidatedSql
    \/ DetectVisualization
    \/ ChartValidationReturns

CoordinatorSpec == CoordinatorInit /\ [][CoordinatorNext]_vars

----------------------------------------------------------------------------
\* Vocabulary of the properties

\* Step a declares among its required inputs a key that another step b
\* declares among its produced outputs.
Requires(a, b) ==
    a.name # b.name /\ a.required_inputs \cap b.output_keys # {}

\* Some set of steps in which every step requires a step of the set.
HasCircularDependency ==
    \E S \in SUBSET (DOMAIN steps) :
        /\ S # {}
        /\ \A i \in S : \E j \in S : Requires(steps[i], steps[j])

Failing(kind) == kind \in {"failed", "timeout", "raised"}

\* The error of an attempt of `step` that ended the given way.
ErrorOfAttempt(step, kind) ==
    CASE kind = "timeout" -> <<"Step timeout after ", "30", "s">>
      [] kind = "raised" -> <<"exception in ", step.name>>
      [] OTHER -> IF step.sub_steps # <<>>
                  THEN <<"One or more parallel steps failed">>
                  ELSE <<"error of ", step.name>>

\* The wrapper of step n has returned a failed outcome after its last attempt.
RetriesExhausted(n) ==
    /\ tasks[n].phase = "done"
    /\ tasks[n].log # <<>>
    /\ Failing(tasks[n].log[Len(tasks[n].log)])

\* The outcome the wrapper owes a step that received input_data and whose
\* attempts ended as `log` says: the result of a last attempt that did not
\* fail, else a failed outcome that holds input_data and the last error.
OwnOutcome(step, input_data, log) ==
    LET last == log[Len(log)]
        own == {<<k, step.name>> : k \in step.writes}
    IN  CASE last = "success" ->
                StepResult(step.name, "success",
                           IF step.echo THEN Update(input_data, own) ELSE own, None)
          [] last = "skipped" ->
                StepResult(step.name, "skipped", input_data, None)
          [] OTHER ->
                StepResult(step.name, "failed", input_data,
                           <<"Failed after ", ToString(max_retries + 1), " attempts: ">>
                           \o ErrorOfAttempt(step, last))

\* The last dispatch was a concurrent batch and its outcomes have been merged.
BatchMerged == pc \in {"loop", "return", "done"} /\ Len(ready_steps) > 1

\* The names of the steps of `ss` that are in S, in the order of ss.
Declared(ss, S) ==
    LET sel == SelectSeq(ss, LAMBDA step : step.name \in S) IN
    [i \in DOMAIN sel |-> sel[i].name]

----------------------------------------------------------------------------
\* C1: a dependency-scheduled run over steps whose required inputs and
\* produced outputs form a circular dependency terminates.
C1_CycleTerminates == HasCircularDependency => <>(pc = "done")

C1_Witness == HasCircularDependency /\ cycle_logged /\ pc = "done"

\* C2: when the ready set is empty while unexecuted steps remain, the run's
\* overall status is failed, never success, whatever completed before.
C2_CycleRunFails == (cycle_logged /\ pc = "done") => status = "failed"

\* C3: a step is started only when it has not been executed and every other
\* step that produces one of its required inputs has been executed; no step
\* is started twice.
C3_StartedWhenReady ==
    /\ pc = "await" =>
          \A n \in Range(ready_steps) :
             /\ n \notin executed_steps
             /\ \A i \in DOMAIN steps :
                   Requires(StepNamed(steps, n), steps[i])
                      => steps[i].name \in executed_steps
    /\ \A i, j \in DOMAIN dispatches :
          \A k \in DOMAIN dispatches[i], l \in DOMAIN dispatches[j] :
             dispatches[i][k] = dispatches[j][l] => (i = j /\ k = l)

C3_Witness ==
    /\ pc = "await"
    /\ \E n \in Range(ready_steps) : \E i \in DOMAIN steps :
          /\ Requires(StepNamed(steps, n), steps[i])
          /\ steps[i].name \in executed_steps

\* C4: a step whose every attempt fails (failed result, timeout or exception)
\* is attempted exactly max_retries + 1 times; the wrapper then returns a
\* failed outcome, and no exception or timeout escapes it.
C4_AttemptsThenFailed ==
    \A n \in Names(steps) :
       LET t == tasks[n] IN
       /\ Len(t.log) <= max_retries + 1
       /\ t.result.status # "exception"
       /\ (t.phase = "done" /\ \A i \in DOMAIN t.log : Failing(t.log[i]))
             => (Len(t.log) = max_retries + 1 /\ t.result.status = "failed")

C4_Witness ==
    \E n \in Names(steps) :
       /\ max_retries = 2
       /\ tasks[n].phase = "done"
       /\ tasks[n].result.status = "failed"
       /\ {tasks[n].log[i] : i \in DOMAIN tasks[n].log} = {"failed", "timeout", "raised"}

\* C5: before attempt k (k >= 2) the wrapper has waited 2^(k-2) time units,
\* whichever way the previous attempt failed, and it does not wait after the
\* last attempt.  (attempt is the loop variable: k = attempt + 1.)
C5_BackoffBeforeEveryRetry ==
    \A n \in Names(steps) :
       /\ (tasks[n].phase = "running" /\ tasks[n].attempt >= 1)
             => tasks[n].waited = 2 ^ (tasks[n].attempt - 1)
       /\ tasks[n].phase = "sleeping" => tasks[n].attempt < max_retries

\* C6 as stated: after the final failed attempt the error of the returned
\* outcome is exactly the error of the last attempt.
C6_ErrorIsLastError ==
    \A n \in Names(steps) :
       RetriesExhausted(n) =>
          tasks[n].result.error =
             ErrorOfAttempt(StepNamed(steps, n), tasks[n].log[Len(tasks[n].log)])

\* C6 as amended: after the final failed attempt the error of the returned
\* outcome is "Failed after <max_retries + 1> attempts: " followed by the
\* error of the last attempt, and holds nothing of earlier attempts.
C6_ErrorWrapsLastError ==
    \A n \in Names(steps) :
       RetriesExhausted(n) =>
          tasks[n].result.error =
             <<"Failed after ", ToString(max_retries + 1), " attempts: ">>
             \o ErrorOfAttempt(StepNamed(steps, n), tasks[n].log[Len(tasks[n].log)])

C6_Witness ==
    \E n \in Names(steps) :
       /\ RetriesExhausted(n)
       /\ Len(tasks[n].log) = 3
       /\ tasks[n].log[1] # tasks[n].log[3]
       /\ tasks[n].log[2] # tasks[n].log[3]

\* C7: when the ready set holds exactly one step and that step ends failed,
\* no further step is started and the run ends with status failed.
C7_SingleFailureStopsRun ==
    \A i \in DOMAIN dispatches :
       (/\ Len(dispatches[i]) = 1
        /\ \E k \in DOMAIN results :
              /\ results[k].step_name = dispatches[i][1]
              /\ results[k].status = "failed")
       => (i = Len(dispatches) /\ pc # "await" /\ (pc = "done" => status = "failed"))

\* C8: the members of a concurrent batch are awaited jointly and each yields
\* exactly one outcome, decided by its own attempts alone: a member that
\* fails, raises or times out neither cancels a sibling nor changes its
\* outcome.  The same holds of the sub-steps of a ParallelStep.
C8_BatchIsolation ==
    /\ (pc = "await" /\ Len(ready_steps) > 1) =>
          \A n \in Range(ready_steps) :
             /\ tasks[n].phase \in {"running", "sleeping", "done"}
             /\ (/\ tasks[n].phase = "done"
                 /\ tasks[n].log # <<>>
                 /\ StepNamed(steps, n).sub_steps = <<>>)
                   => tasks[n].result =
                         OwnOutcome(StepNamed(steps, n), current_data, tasks[n].log)
    /\ BatchMerged =>
          \A n \in Range(ready_steps) :
             LET t == tasks[n]
                 own == {k \in DOMAIN results : results[k].step_name = n}
             IN  /\ Cardinality(own) = 1
                 /\ t.log # <<>>
                 /\ Failing(t.log[Len(t.log)]) => Len(t.log) = max_retries + 1
                 /\ \A k \in own :
                       /\ results[k] = t.result
                       /\ results[k].status =
                             IF Failing(t.log[Len(t.log)]) THEN "failed"
                             ELSE t.log[Len(t.log)]
                       /\ results[k].error =
                             IF Failing(t.log[Len(t.log)])
                             THEN <<"Failed after ", ToString(max_retries + 1),
                                    " attempts: ">>
                                  \o ErrorOfAttempt(StepNamed(steps, n), t.log[Len(t.log)])
                             ELSE None
    /\ step_results # <<>> =>
          \A i \in DOMAIN steps :
             steps[i].sub_steps # <<>> =>
                /\ Len(step_results) = Len(steps[i].sub_steps)
                /\ \A k \in DOMAIN step_results :
                      LET sub == steps[i].sub_steps[k] IN
                      /\ step_results[k].step_name = sub.name
                      /\ subs[sub.name].phase = "done"
                      /\ step_results[k].status =
                            IF subs[sub.name].result.status = "exception" THEN "failed"
                            ELSE subs[sub.name].result.status

C8_Witness ==
    /\ BatchMerged
    /\ \E n, m \in Range(ready_steps) :
          /\ completed[1] = n
          /\ tasks[n].log[Len(tasks[n].log)] \in {"timeout", "raised"}
          /\ tasks[m].log[Len(tasks[m].log)] = "success"
          /\ \E k \in DOMAIN results :
                results[k].step_name = m /\ results[k].status = "success"

\* C9: the outcomes of a concurrent batch are recorded and merged into the
\* DataBag in the steps' declaration order, whatever the order in which the
\* members complete; ParallelStep records its sub-steps' outcomes in the
\* order of its sub_steps.
C9_MergeInDeclarationOrder ==
    [][ /\ (pc = "await" /\ pc' = "loop" /\ Len(ready_steps) > 1) =>
              LET order == Declared(steps, Range(ready_steps))
                  outcomes == [i \in DOMAIN order |-> tasks[order[i]].result]
              IN  /\ results' = results \o outcomes
                  /\ current_data' = MergeAll(current_data, outcomes)
        /\ (step_results' # step_results /\ step_results' # <<>>) =>
              \E i \in DOMAIN steps :
                 /\ steps[i].sub_steps # <<>>
                 /\ step_results' =
                       [k \in DOMAIN steps[i].sub_steps |->
                          LET r == subs[steps[i].sub_steps[k].name].result IN
                          IF r.status = "exception"
                          THEN StepResult(r.step_name, "failed", {}, r.error)
                          ELSE r]
      ]_vars

C9_Witness ==
    /\ BatchMerged
    /\ Len(completed) = 2
    /\ completed # Declared(steps, Range(ready_steps))
    /\ \A n \in Range(ready_steps) : tasks[n].result.status = "success"
    /\ \E k \in Keys(current_data) :
          \A n \in Range(ready_steps) : k \in StepNamed(steps, n).writes

\* Five steps with pairwise disjoint required inputs and produced outputs,
\* each writing exactly the outputs it declares.
FiveDisjointSteps ==
    /\ Len(steps) = 5
    /\ \A i \in DOMAIN steps : steps[i].writes = steps[i].output_keys
    /\ \A i, j \in DOMAIN steps :
          i # j => (steps[i].required_inputs \cup steps[i].output_keys)
                   \cap (steps[j].required_inputs \cup steps[j].output_keys) = {}

AllOutputs == UNION {steps[i].output_keys : i \in DOMAIN steps}

OneBatchOfAll ==
    dispatches \in {<<>>, << [i \in DOMAIN steps |-> steps[i].name] >>}

\* C10 as stated: five such steps are dispatched in one concurrent batch and
\* after the run the DataBag's key set is exactly the union of their
\* declared outputs.
C10_KeysAreDeclaredOutputs ==
    FiveDisjointSteps =>
       /\ OneBatchOfAll
       /\ pc = "done" => Keys(current_data) = AllOutputs

\* C10 as amended: five such steps are dispatched in one concurrent batch and
\* after the run the DataBag's key set is exactly the keys of the initial
\* DataBag together with the declared outputs of the steps that succeeded.
C10_KeysAreInitialAndSucceededOutputs ==
    FiveDisjointSteps =>
       /\ OneBatchOfAll
       /\ pc = "done" =>
             Keys(current_data) =
                Keys(initial_data)
                \cup UNION {steps[i].output_keys : i \in
                               {j \in DOMAIN steps : \E k \in DOMAIN results :
                                   /\ results[k].step_name = steps[j].name
                                   /\ results[k].status = "success"}}

C10_Witness ==
    /\ FiveDisjointSteps
    /\ pc = "done"
    /\ Len(dispatches) = 1
    /\ initial_data # {}
    /\ \E k \in DOMAIN results : results[k].status = "failed"
    /\ \E k \in DOMAIN results : results[k].status = "success"

----------------------------------------------------------------------------
\* Vocabulary of the properties of the validation loops

CheckNames == Range(SqlChecks) \cup Range(GraphChecks)

\* The entries of the history that are checks of iteration i, in order.
ChecksOf(i) == SelectSeq(history, LAMBDA e : e.iteration = i /\ e.op \in CheckNames)

\* The number of check rounds performed so far.
RoundsRun == Cardinality({i \in 1..MaxIterations + 1 : ChecksOf(i) # <<>>})

\* The loop has returned its report.
Returned == vpc = "done"

\* C11: whatever the checks, the fixes and the oracle give, a validation loop
\* (SQL or chart) returns its report; it performs at most max_iterations check
\* rounds, and the iterations of its report is at most max_iterations.
C11_BoundedRounds ==
    /\ <>Returned
    /\ [](/\ RoundsRun <= max_iterations
          /\ Returned => report.iterations <= max_iterations)

\* a run that used up its three rounds
C11_Witness ==
    /\ Returned
    /\ max_iterations = MaxIterations
    /\ RoundsRun = MaxIterations
    /\ ~report.success

\* The artifact that a loop works on when it starts: the SQL text without its
\* surrounding white space, the chart payload as it is.
TakenOnEntry(a) == IF loop = "sql" THEN Strip(a) ELSE a

PassesEveryCheck ==
    /\ Len(ChecksOf(1)) = Len(Checks(loop))
    /\ \A k \in 1..Len(ChecksOf(1)) : ChecksOf(1)[k].finding.is_valid

\* C13 (as stated): for an artifact that already passes every check, the loop
\* returns iterations 1, success true and final equal to original.
C13_NoOpConvergence ==
    Returned /\ PassesEveryCheck
        => /\ report.iterations = 1
           /\ report.success
           /\ report.final = report.original

\* The last check run in iteration i (ChecksOf(i) is not empty).
LastCheckOf(i) == ChecksOf(i)[Len(ChecksOf(i))]

\* C14: in each iteration the checks run in their fixed order, on the
\* first failing check the iteration stops: every check run before the last
\* one of the iteration passed, so no check placed after a failing one is run;
\* the iteration records exactly one finding, and it is the finding of the
\* failing check (the final finding when every check passed).
C14_FirstFailingCheckIsTheFinding ==
    /\ Len(validation_results) <= RoundsRun
    /\ RoundsRun <= Len(validation_results) + 1
    /\ \A i \in 1..MaxIterations :
          LET cs == ChecksOf(i) IN
          /\ Len(cs) <= Len(Checks(loop))
          /\ \A k \in 1..Len(cs) : cs[k].op = Checks(loop)[k]
          /\ \A k \in 1..(Len(cs) - 1) : cs[k].finding.is_valid
          /\ cs # <<>> /\ ~LastCheckOf(i).finding.is_valid
                => /\ Len(validation_results) >= i
                   /\ validation_results[i] = LastCheckOf(i).finding
          /\ Len(validation_results) >= i
                => /\ cs # <<>>
                   /\ \/ validation_results[i] = LastCheckOf(i).finding
                      \/ /\ Len(cs) = Len(Checks(loop))
                         /\ LastCheckOf(i).finding.is_valid
                         /\ validation_results[i] = CompleteIteration(i)

\* an SQL iteration stopped by its second check: neither the oracle nor the
\* warehouse was asked in it
C14_Witness ==
    /\ Returned
    /\ loop = "sql"
    /\ \E i \in 1..MaxIterations :
          /\ ChecksOf(i) # <<>>
          /\ Len(ChecksOf(i)) = 2
          /\ ~LastCheckOf(i).finding.is_valid
          /\ validation_results[i] = LastCheckOf(i).finding
          /\ \A k \in 1..Len(history) :
                history[k].iteration = i => history[k].called = "none"

\* Event k of the history comes after a passed check named op of the same
\* iteration.
PrecededByPassed(k, op) ==
    \E j \in 1..(k - 1) :
        /\ history[j].iteration = history[k].iteration
        /\ history[j].op = op
        /\ history[j].finding.is_valid

\* C15 (as stated): in the SQL loop the oracle is asked for the semantic check
\* of an iteration only after the syntax, dialect, performance and execution
\* checks of that iteration have passed.
C15_SemanticCheckIsLast ==
    loop = "sql" =>
        \A k \in 1..Len(history) :
            history[k].op = "semantic" /\ history[k].called = "oracle"
                => \A op \in {"syntax", "bigquery_specific", "performance", "execution"} :
                       PrecededByPassed(k, op)

\* Iteration i recorded a failing finding that carries a suggested fix, and
\* the loop has gone on from it.
FixSuggestedIn(i) ==
    /\ Len(validation_results) >= i
    /\ ~validation_results[i].is_valid
    /\ validation_results[i].suggested_fix # <<>>
    /\ iteration > i \/ Returned

\* The entries of the history of iteration i with operation op.
EventsOf(i, op) == SelectSeq(history, LAMBDA e : e.iteration = i /\ e.op = op)

\* C16: when the failing finding of an iteration carries a suggested fix, no
\* improvement is requested from the oracle in that iteration, the fix is
\* taken as the current artifact, and the checks of the next iteration (when
\* there is one) are run on the fix; after the last iteration the fix is the
\* final artifact of the report.
C16_SuggestedFixIsNextArtifact ==
    \A i \in 1..MaxIterations :
        FixSuggestedIn(i) =>
            LET fix == validation_results[i].suggested_fix[1] IN
            /\ EventsOf(i, "generate_improvement") = <<>>
            /\ \A k \in 1..Len(history) :
                  history[k].iteration = i /\ history[k].called = "oracle"
                      => history[k].op = "semantic"
            /\ Len(EventsOf(i, "suggested_fix")) = 1
            /\ EventsOf(i, "suggested_fix")[1].result = <<fix>>
            /\ \A k \in 1..Len(ChecksOf(i + 1)) :
                  ChecksOf(i + 1)[k].arg = CheckedText(loop, ChecksOf(i + 1)[k].op, fix)
            /\ Len(validation_results) = i /\ Returned => report.final = fix

\* a fix suggested in the first iteration was checked in the second
C16_Witness ==
    /\ Returned
    /\ FixSuggestedIn(1)
    /\ Len(ChecksOf(2)) >= 2
    /\ ChecksOf(2)[1].arg = validation_results[1].suggested_fix[1]
    /\ ChecksOf(2)[1].arg # ChecksOf(1)[1].arg

\* Entry k of the history is a request for an improvement that failed or
\* gave back the artifact it was asked to improve.
NoProgressAt(k) ==
    /\ history[k].op = "generate_improvement"
    /\ \/ history[k].result = <<>>
       \/ history[k].result[1] = history[k].arg

\* C17: when the failing finding has no suggested fix and the request for an
\* improvement fails or returns the current artifact, that request is the
\* last thing the loop does (no further check round, no further request) and
\* the loop returns a report with success false, on the artifact as it was.
C17_NoProgressEndsTheLoop ==
    \A k \in 1..Len(history) :
        NoProgressAt(k) =>
            /\ k = Len(history)
            /\ Returned
            /\ ~report.success
            /\ report.final = history[k].arg
            /\ ~UsesSuggestedFix(validation_results[Len(validation_results)])

\* the oracle gave back the same artifact while rounds were left
C17_Witness ==
    /\ Returned
    /\ history # <<>>
    /\ NoProgressAt(Len(history))
    /\ history[Len(history)].result # <<>>
    /\ history[Len(history)].called = "oracle"
    /\ RoundsRun < max_iterations

\* No oracle is available: every call of the oracle has raised.
NoOracle == \A k \in 1..Len(history) : history[k].called = "oracle" => history[k].raised

\* The chart loop was given the pie payload with labels A, B, C and values
\* 10, -5, 20.
NegativePieGiven == loop = "chart" /\ chart_type = "pie" /\ artifact = NegativePie

NegativeValueRule == <<"Pie charts cannot have negative values">>

\* C18 (as stated): for the pie payload A, B, C / 10, -5, 20 and no oracle
\* available, the loop uses up its max_iterations check rounds and returns
\* success false with the final error of the negative-value rule.
C18_NegativePieExhaustsIterations ==
    Returned /\ NegativePieGiven /\ NoOracle
        => /\ RoundsRun = max_iterations
           /\ ~report.success
           /\ report.final_error = NegativeValueRule

\* C18: for the pie payload A, B, C / 10, -5, 20 and no oracle available,
\* the loop runs one check round, whose pie check fails on the negative value;
\* the one request for an improvement fails and ends the loop; the report has
\* success false, the final error of the negative-value rule, the payload
\* unchanged, and max_iterations as its iterations.
C18_NegativePieStopsAfterOneRound ==
    Returned /\ NegativePieGiven /\ NoOracle
        => /\ RoundsRun = 1
           /\ Len(validation_results) = 1
           /\ validation_results[1].validation_type = "pie_specific"
           /\ Len(EventsOf(1, "generate_improvement")) = 1
           /\ EventsOf(1, "generate_improvement")[1].called = "oracle"
           /\ EventsOf(1, "generate_improvement")[1].result = <<>>
           /\ ~report.success
           /\ report.final_error = NegativeValueRule
           /\ report.final = report.original
           /\ report.iterations = max_iterations

\* the run of the scenario with three iterations allowed
C18_Witness ==
    /\ Returned
    /\ NegativePieGiven
    /\ NoOracle
    /\ max_iterations = MaxIterations
    /\ report.final_error = NegativeValueRule

\* The chart loop was given the bar payload of 75 labels and 75 values.
OversizedBarGiven == loop = "chart" /\ chart_type = "bar" /\ artifact = OversizedBar

\* The first 50 labels and the first 50 values of that payload, in their
\* order, entry i of the one beside entry i of the other.
FirstFifty ==
    [labels |-> [i \in 1..50 |-> OversizedBar["labels"][i]],
     values |-> [i \in 1..50 |-> OversizedBar["values"][i]]]

\* C19 (as stated): the bar payload of 75 entries is repaired to its first 50
\* entries and is then validated again as valid without any call of the oracle
\* (a second round being allowed).
C19_TruncatedAndValidWithoutOracle ==
    Returned /\ OversizedBarGiven /\ max_iterations >= 2
        => /\ report.success
           /\ report.final = FirstFifty
           /\ \A k \in 1..Len(history) : history[k].called # "oracle"

\* C19: the first round of the bar payload of 75 entries fails with the
\* first 50 entries of each array as its suggested fix, which is applied
\* without a request to the oracle for an improvement; with a second round
\* allowed, that round checks the truncated payload and asks the oracle for
\* its semantic check, and when the oracle does not declare the payload
\* invalid the loop returns success, iterations 2 and the truncated payload;
\* with one round allowed the report is a failure on the truncated payload.
C19_TruncatedThenCheckedAgain ==
    Returned /\ OversizedBarGiven
        => /\ ~validation_results[1].is_valid
           /\ validation_results[1].suggested_fix = <<FirstFifty>>
           /\ EventsOf(1, "generate_improvement") = <<>>
           /\ \A k \in 1..Len(history) :
                 history[k].iteration = 1 => history[k].called = "none"
           /\ max_iterations = 1 => ~report.success /\ report.final = FirstFifty
           /\ max_iterations >= 2 =>
                 /\ Len(ChecksOf(2)) = Len(GraphChecks)
                 /\ \A k \in 1..Len(ChecksOf(2)) : ChecksOf(2)[k].arg = FirstFifty
                 /\ LastCheckOf(2).op = "semantic"
                 /\ LastCheckOf(2).called = "oracle"
                 /\ LastCheckOf(2).finding.is_valid
                       => /\ report.success
                          /\ report.iterations = 2
                          /\ report.final = FirstFifty

\* the truncated payload passed its second round, the oracle having answered
C19_Witness ==
    /\ Returned
    /\ OversizedBarGiven
    /\ report.success
    /\ report.iterations = 2
    /\ report.final = FirstFifty
    /\ \E k \in 1..Len(history) : history[k].called = "oracle" /\ ~history[k].raised

\* Entry k of the history is a semantic check whose call of the oracle raised.
OracleRaisedAt(k) ==
    /\ history[k].op = "semantic"
    /\ history[k].called = "oracle"
    /\ history[k].raised

\* C20: in the SQL loop and in the chart loop, a semantic check whose call
\* of the oracle raised has the finding is_valid true with confidence 0.5; it
\* is not the failing finding of its iteration, and when it is the last check
\* of the iteration the iteration succeeds.
C20_SemanticCheckFailsOpen ==
    \A k \in 1..Len(history) :
        OracleRaisedAt(k) =>
            LET i == history[k].iteration IN
            /\ history[k].finding.is_valid
            /\ history[k].finding.confidence_score = 50
            /\ history[k].finding.validation_type = "semantic"
            /\ Len(validation_results) >= i /\ ~validation_results[i].is_valid
                  => /\ validation_results[i].validation_type # "semantic"
                     /\ validation_results[i] = LastCheckOf(i).finding
                     /\ LastCheckOf(i) # history[k]
            /\ Checks(loop)[Len(Checks(loop))] = "semantic"
                  => /\ Returned
                     /\ report.success
                     /\ report.iterations = i

\* an SQL query passed its round although the oracle was out
C20_Witness ==
    /\ Returned
    /\ loop = "sql"
    /\ report.success
    /\ \E k \in 1..Len(history) : OracleRaisedAt(k) /\ history[k].iteration = report.iterations

\* C26 (as stated): in every report, iterations is the number of findings
\* recorded, which is the number of check rounds performed, also when the loop
\* stopped early.
C26_IterationsCountsRounds ==
    Returned =>
        /\ report.iterations = Len(validation_results)
        /\ report.iterations = RoundsRun

\* The artifact that the checks of the last round performed were run on.
LastCheckedArtifact == ChecksOf(RoundsRun)[1].arg

\* C27 (as stated): when a loop returns success false, the final artifact of
\* its report is the artifact that the last recorded finding was computed on.
C27_FinalIsLastCheckedArtifact ==
    Returned /\ ~report.success => report.final = LastCheckedArtifact

\* C28 (as stated): every suggested fix that a loop applies differs from the
\* artifact it replaces.
C28_AppliedFixChangesArtifact ==
    \A k \in 1..Len(history) :
        history[k].op = "suggested_fix" => history[k].result # <<history[k].arg>>

----------------------------------------------------------------------------
\* Properties of the DataBag and of the sequential runs

\* C23 (as stated): merging a step's outcome into the DataBag adds or
\* overwrites only keys the step declares among its produced outputs and never
\* removes a key: every key outside the step's declared outputs keeps its
\* presence and its value.
C23_MergeWritesOnlyDeclaredOutputs ==
    [][ (runner # "none" /\ Len(results') = Len(results) + 1) =>
           /\ Keys(current_data) \subseteq Keys(current_data')
           /\ \A p \in current_data \cup current_data' :
                 p[1] \notin steps[Len(results')].output_keys
                    => (p \in current_data /\ p \in current_data')
      ]_vars

\* C25: while a concurrent batch is in flight the DataBag does not change; it
\* is updated only by the scheduler once every member of the batch has
\* finished.  Every member (and every sub-step of a ParallelStep) is run on the
\* DataBag as it stood when the batch was dispatched, so that a member's
\* successful outcome holds that DataBag and its own keys, and nothing of a
\* sibling.
C25_DataBagFrozenInFlight ==
    [][ (pc = "await" /\ Len(ready_steps) > 1) =>
           /\ current_data' # current_data =>
                 /\ pc' = "loop"
                 /\ \A n \in Range(ready_steps) : tasks[n].phase = "done"
           /\ pc' = "await" =>
                 /\ current_data' = current_data
                 /\ \A n \in Range(ready_steps) :
                       LET step == StepNamed(steps, n) IN
                       (/\ tasks'[n].phase = "done"
                        /\ tasks'[n].result.status = "success"
                        /\ step.sub_steps = <<>>)
                          => /\ tasks'[n].result = StepRun(step, current_data, "success")
                             /\ \A m \in Range(ready_steps) \ {n} :
                                   \A k \in StepNamed(steps, m).writes \ step.writes :
                                      k \in Keys(tasks'[n].result.data)
                                         => k \in Keys(current_data)
                 /\ \A i \in DOMAIN steps : \A j \in DOMAIN steps[i].sub_steps :
                       LET sub == steps[i].sub_steps[j] IN
                       (/\ subs'[sub.name].phase = "done"
                        /\ subs'[sub.name].result.status = "success")
                          => subs'[sub.name].result = StepRun(sub, current_data, "success")
      ]_vars

\* A member of a batch has succeeded, a sibling is still running, and the
\* DataBag holds none of the keys the finished member wrote.
C25_Witness ==
    /\ pc = "await"
    /\ Len(ready_steps) > 1
    /\ \E n, m \in Range(ready_steps) :
          /\ n # m
          /\ tasks[n].phase = "done"
          /\ tasks[n].result.status = "success"
          /\ StepNamed(steps, n).writes # {}
          /\ StepNamed(steps, n).writes \cap Keys(current_data) = {}
          /\ StepNamed(steps, n).writes \subseteq Keys(tasks[n].result.data)
          /\ tasks[m].phase \in {"running", "sleeping"}

AllSteps == Range(steps) \cup UNION {Range(steps[i].sub_steps) : i \in DOMAIN steps}

\* The outcome at position k has ended the for loop
EndsRun(k) ==
    /\ k = Len(results)
    /\ index = k
    /\ pc \in {"return", "done"}
    /\ pc = "done" => status = "failed"
    /\ \A j \in DOMAIN runs :
          \E i \in 1..k : runs[j].step \in {steps[i].name} \cup Names(steps[i].sub_steps)

\* The pair is in the DataBag by the initial data or by a successful outcome
\* among the first k
MergedBefore(p, k) ==
    \/ p \in initial_data
    \/ \E j \in 1..k : results[j].status = "success" /\ p \in results[j].data

\* C24: in a sequential run the first step that ends failed stops the run: no
\* later step is started, the result is unsuccessful and lists the outcomes of
\* the steps in order up to and including the failed one, and the DataBag
\* holds the initial data and what the successful steps merged; the data of a
\* failed or skipped outcome is not merged.
C24_FirstFailureStopsRun ==
    (runner # "none" /\ pc # "start") =>
       /\ \A k \in DOMAIN results : results[k].status = "failed" => EndsRun(k)
       /\ \A k \in DOMAIN results : results[k].step_name = steps[k].name
       /\ \A p \in current_data : MergedBefore(p, Len(results))
       /\ \A k \in DOMAIN results :
             IF results[k].status = "success"
             THEN Keys(results[k].data) \subseteq Keys(current_data)
             ELSE \A p \in results[k].data :
                     p \in current_data => MergedBefore(p, k - 1)

\* PipelineService.execute has returned a failure of a step that is neither
\* the first nor the last, after a skipped step, and the failed outcome
\* carries data that the DataBag does not hold.
C24_Witness ==
    /\ runner = "service"
    /\ pc = "done"
    /\ \E k \in DOMAIN results :
          /\ results[k].status = "failed"
          /\ k > 1
          /\ k < Len(steps)
          /\ \E p \in results[k].data : p \notin current_data
          /\ \E j \in 1..(k - 1) : results[j].status = "skipped"

\* C29 (as stated): in every pipeline built by PipelineFactory the body of a
\* step is entered only with all its declared required inputs present in the
\* data it receives; in particular chart data extraction is not entered
\* before visualization detection has produced visualization_type.
C29_RunOnlyWithRequiredInputs ==
    runner = "service" =>
       \A j \in DOMAIN runs :
          LET step == CHOOSE st \in AllSteps : st.name = runs[j].step IN
          step.required_inputs \subseteq runs[j].received

----------------------------------------------------------------------------
\* Properties of the validation coordinator

\* C21: once the SQL validation loop has returned success = false, or the
\* execution of the validated query has returned an error, the coordinator has
\* returned a failed final result that carries the error of that phase, and
\* neither the visualization detection nor the chart validation loop is run.
C21_FailedPhaseShortCircuits ==
    LET sql_failed == sql_report # <<>> /\ ~sql_report[1].success
        execution_failed == execution # <<>> /\ execution[1].execution_error # <<>>
    IN  (sql_failed \/ execution_failed) =>
           /\ cpc = "done"
           /\ ~coordinator_report[1].success
           /\ ~coordinator_report[1].final_result.success
           /\ coordinator_report[1].final_result.error =
                 (IF sql_failed
                  THEN <<"SQL validation failed: ">> \o sql_report[1].final_error
                  ELSE <<"SQL execution failed: ">> \o execution[1].execution_error[1])
           /\ "detect" \notin Range(phases)
           /\ "chart" \notin Range(phases)

\* C22: once the visualization detection has found no visualization type, the
\* coordinator has returned a successful report whose final result is
\* successful and has no chart section, and the chart validation loop is not
\* run.
C22_NoVisualizationIsSuccess ==
    (viz # <<>> /\ viz[1].viz_type = <<>>) =>
       /\ cpc = "done"
       /\ coordinator_report[1].success
       /\ coordinator_report[1].final_result.success
       /\ "chart_data" \notin DOMAIN coordinator_report[1].final_result
       /\ coordinator_report[1].final_result.visualization = None
       /\ coordinator_report[1].graph_report = <<>>
       /\ graph_report = <<>>
       /\ "chart" \notin Range(phases)
       /\ loop = "sql"

\* C22: the detection has found nothing in a question without pattern and an
\* answer without numbered list, after a successful execution.
C22_Witness ==
    /\ cpc = "done"
    /\ viz # <<>>
    /\ viz[1].viz_type = <<>>
    /\ phases = <<"sql", "execute", "detect">>
    /\ coordinator_report[1].final_result.warning = <<"No visualization could be generated">>

====
